---- MODULE Spec2Model ----
(***************************************************************************)
(* Model of the Cronos402 dashboard's payment core:                        *)
(*   - the MCP relay route /api/mcp-proxy (POST, GET, OPTIONS),             *)
(*   - the useSignUsdcPermit signing hook,                                  *)
(*   - the payment service (submitUsdcPayment, completePayment) and the     *)
(*     PaymentButton component,                                            *)
(*   - the chat's tool calls through the MCP client (ChatContent).          *)
(* The relay is checked under RelaySpec, the signing hook under HookSpec,   *)
(* the payment attempts under PaySpec, the tool calls under ToolSpec.       *)
(***************************************************************************)
EXTENDS Integers, Sequences, FiniteSets, TLC

VARIABLES
    \* ---- relay (/api/mcp-proxy) ----
    nodeEnv,      \* env.NODE_ENV of the deployment
    rpc,          \* position of the one relay request being handled
    req,          \* the inbound request
    fwd,          \* the request handed to fetch(mcpUrl, ...), or NoFwd
    synth,        \* sequence of ids crypto.randomUUID() returned for this request
    upstream,     \* the upstream's response, or NoUp
    resp,         \* the relay's response, or NoResp
    \* ---- payment flow ----
    connectedAddress, chainId,                \* useAccount(), useChainId()
    defaultConfig,                            \* argument of useSignUsdcPermit
    authorization, signature, hookError, isLoading,  \* the hook's useState cells
    calls,        \* the signPermit invocations, by slot
    clock,        \* Date.now(), in milliseconds
    attempt,      \* the payment attempt (PaymentButton.handlePayment / completePayment)
    submissions,  \* the authorizations handed to submitUsdcPayment's fetch, in order
    \* ---- chat tool calls (ChatContent) ----
    isWalletConnected,  \* isBrowserWalletConnected && hasWalletClient && !!paymentWalletAddress
    mcpClient,    \* the mcpClient state cell: "null", "plain" or "wrapped"
    init,         \* the initMcpClient run in flight, or NoInit
    tool,         \* the tool call in progress, or ToolIdle
    \* ---- a second relay request, the wallet-link connector, the chat store ----
    other,        \* the relay request whose handler is suspended at an await, or NoOther
    link,         \* the wallet-link connector component, or NoLink
    store         \* the chat routes and their database, or NoStore

relayVars == <<nodeEnv, rpc, req, fwd, synth, upstream, resp>>
payVars == <<connectedAddress, chainId, defaultConfig, authorization, signature,
             hookError, isLoading, calls, clock, attempt, submissions>>
chatVars == <<isWalletConnected, mcpClient, init, tool>>
extVars == <<other, link, store>>
vars == <<relayVars, payVars, chatVars, extVars>>

Null == "<null>"
Throw == "<throw>"

\* no second relay request, no connector mounted, no chat route in use
NoOther == [rpc |-> "none"]
NoLink == [pc |-> "unmounted"]
NoStore == [pc |-> "unused"]

\* the chat at rest: no initMcpClient run and no tool call in progress
NoRun == [wrap |-> FALSE, url |-> "<null>"]
NoInit ==
    [pc |-> "idle", wrap |-> FALSE, url |-> "<null>", stale |-> {}, client |-> NoRun,
     error |-> NoRun]
ToolIdle ==
    [pc |-> "idle", client |-> "null", wallet |-> FALSE, price |-> 0, confirmed |-> "none",
     prompts |-> 0, signed |-> 0, settled |-> 0, retried |-> FALSE, error |-> Null,
     result |-> Null]

(***************************************************************************)
(* The Fetch API's Headers object: a map from lower-cased names to values.  *)
(***************************************************************************)
Lower(name) ==
    CASE name = "MCP-Session-Id" -> "mcp-session-id"
      [] name = "Mcp-Session-Id" -> "mcp-session-id"
      [] name = "Cookie" -> "cookie"
      [] name = "Accept" -> "accept"
      [] name = "Content-Type" -> "content-type"
      [] name = "Content-Encoding" -> "content-encoding"
      [] name = "Content-Length" -> "content-length"
      [] name = "Host" -> "host"
      [] name = "Origin" -> "origin"
      [] name = "Referer" -> "referer"
      [] OTHER -> name

EmptyHeaders == [n \in {} |-> Null]
HHas(h, name) == Lower(name) \in DOMAIN h
HGet(h, name) == IF HHas(h, name) THEN h[Lower(name)] ELSE Null
HSet(h, name, value) ==
    [n \in DOMAIN h \cup {Lower(name)} |-> IF n = Lower(name) THEN value ELSE h[n]]
HDelete(h, name) == [n \in DOMAIN h \ {Lower(name)} |-> h[n]]
\* Headers.append: a repeated name is combined with ", "
HAppend(h, name, value) ==
    IF HHas(h, name) THEN HSet(h, name, h[Lower(name)] \o ", " \o value)
    ELSE HSet(h, name, value)

RECURSIVE NewHeaders(_)
NewHeaders(list) ==
    IF list = <<>> THEN EmptyHeaders
    ELSE LET n == Len(list)
         IN HAppend(NewHeaders(SubSeq(list, 1, n - 1)), list[n][1], list[n][2])


(***************************************************************************)
(* Relay inputs.  A request is [method, query, headers, body]: query is the *)
(* raw text after "target-url=" in url.search (NoParam when the parameter   *)
(* is absent), headers is the list of (name, value) pairs the client sent.  *)
(***************************************************************************)
NoParam == "<no target-url parameter>"
BodyUnreadable == "<request.text() rejects>"
UpstreamUrl == "http://up.test/mcp"

RawTargets ==
    { NoParam,
      "",                              \* ?target-url=
      "aHR0cDovL3VwLnRlc3QvbWNw",      \* base64 of http://up.test/mcp
      "http%3A%2F%2Fup.test%2Fmcp",    \* the plain URL, percent-encoded
      "http://up.test/mcp",            \* the plain URL, as is
      "bm90IGEgdXJs",                  \* base64 of "not a url"
      "%E0%A4%A" }                     \* a malformed percent sequence

InitializeBody == "{\"jsonrpc\":\"2.0\",\"id\":1,\"method\":\"initialize\"}"
ToolCallBody == "{\"jsonrpc\":\"2.0\",\"id\":2,\"method\":\"tools/call\"}"
BodyTexts ==
    { "", InitializeBody, ToolCallBody, "not json", "null",
      "[{\"jsonrpc\":\"2.0\",\"id\":1,\"method\":\"initialize\"}]",
      BodyUnreadable }

ValidCookie == "session=valid"
CookieOptions == { <<>>, << <<"Cookie", ValidCookie>> >>, << <<"Cookie", "session=expired">> >> }
SessionHeaderOptions ==
    { <<>>, << <<"MCP-Session-Id", "client-1">> >>, << <<"mcp-session-id", "client-2">> >> }
ExtraHeaderOptions ==
    { <<>>, << <<"Content-Type", "text/plain">>, <<"Accept", "*/*">>,
               <<"Content-Length", "42">> >> }
OriginOptions ==
    { <<>>,
      << <<"Origin", "https://cronos402.tech">> >>,
      << <<"Origin", "http://localhost:3000">> >>,
      << <<"Origin", "https://evil.test">> >>,
      << <<"Referer", "https://www.cronos402.tech/servers">> >>,
      << <<"Referer", "not a url">> >> }
UUIDs == { "uuid-1", "uuid-2" }

UpstreamStatuses == { 200, 500 }
UpstreamHeaderOptions ==
    { <<>>,
      << <<"mcp-session-id", "up-1">> >>,
      << <<"Content-Encoding", "gzip">>, <<"Content-Type", "text/event-stream">> >>,
      << <<"MCP-Session-Id", "up-2">>, <<"Content-Encoding", "gzip">> >> }

NoFwd == [url |-> Null]
NoUp == [status |-> 0]
NoResp == [status |-> 0]
NoReq == [method |-> Null]

(***************************************************************************)
(* Library conversions, on the sampled inputs.                              *)
(***************************************************************************)
\* decodeURIComponent: throws URIError on a malformed percent sequence
DecodeURIComponent(raw) ==
    CASE raw = "http%3A%2F%2Fup.test%2Fmcp" -> "http://up.test/mcp"
      [] raw = "%E0%A4%A" -> Throw
      [] OTHER -> raw

\* URLSearchParams value decoding: lenient, never throws
FormDecode(raw) ==
    CASE raw = "http%3A%2F%2Fup.test%2Fmcp" -> "http://up.test/mcp"
      [] raw = "%E0%A4%A" -> "<U+FFFD>%A"
      [] OTHER -> raw

\* atob: throws on characters outside the base64 alphabet
Atob(s) ==
    CASE s = "aHR0cDovL3VwLnRlc3QvbWNw" -> "http://up.test/mcp"
      [] s = "bm90IGEgdXJs" -> "not a url"
      [] OTHER -> Throw

\* new URL(s) without a base: needs an absolute URL
URLParses(s) == s \in { "http://up.test/mcp" }

\* new URL(referer).origin
RefererOrigin(referer) ==
    CASE referer = "https://www.cronos402.tech/servers" -> "https://www.cronos402.tech"
      [] OTHER -> Throw

\* JSON.parse(text)?.method; Throw when the text is not JSON
JSONMethod(text) ==
    CASE text = InitializeBody -> "initialize"
      [] text = ToolCallBody -> "tools/call"
      [] text = "null" -> Null
      [] text = "[{\"jsonrpc\":\"2.0\",\"id\":1,\"method\":\"initialize\"}]" -> Null
      [] OTHER -> Throw


(***************************************************************************)
(* getValidOrigin(request).  Throw when new URL(referer) throws.            *)
(***************************************************************************)
AllowedOrigins == { "https://cronos402.tech", "https://www.cronos402.tech" }
\* the sampled origins that start with http(s)://localhost: or http(s)://127.0.0.1:
LocalhostOrigins == { "http://localhost:3000" }

ExtractedOrigin(h) ==
    IF HGet(h, "origin") \notin { Null, "" } THEN HGet(h, "origin")
    ELSE IF HGet(h, "referer") \notin { Null, "" } THEN RefererOrigin(HGet(h, "referer"))
    ELSE Null

getValidOrigin(env, h) ==
    LET extractedOrigin == ExtractedOrigin(h)
    IN  IF extractedOrigin = Throw THEN Throw
        ELSE IF env = "production"
             THEN IF extractedOrigin # Null /\ extractedOrigin \in AllowedOrigins
                  THEN extractedOrigin
                  ELSE Null
             ELSE IF extractedOrigin # Null /\ extractedOrigin \in LocalhostOrigins
                  THEN extractedOrigin
                  ELSE extractedOrigin

(***************************************************************************)
(* The steps of POST and GET, as the route's code takes them.               *)
(***************************************************************************)
\* serverAuth.getSession(...).data is present
SessionValid(h) == HGet(h, "cookie") = ValidCookie

\* POST: /[?&]target-url=([^&]+)/ on url.search, then decodeURIComponent
TargetParamPOST(query) ==
    IF query = NoParam \/ query = "" THEN Null ELSE DecodeURIComponent(query)

\* GET: url.searchParams.get('target-url')
TargetParamGET(query) ==
    IF query = NoParam THEN Null ELSE FormDecode(query)

\* try { atob; new URL } catch { try { new URL(targetUrl) } catch { 400 } }
ResolveTarget(targetUrl) ==
    LET decoded == Atob(targetUrl)
    IN  IF decoded # Throw /\ URLParses(decoded) THEN decoded
        ELSE IF URLParses(targetUrl) THEN targetUrl
        ELSE Throw

HopByHop == { "host", "connection", "content-length", "transfer-encoding", "content-encoding" }

CopyHeaders(h) == [n \in DOMAIN h \ HopByHop |-> h[n]]

WithCookie(fh, h) ==
    IF HGet(h, "cookie") \notin { Null, "" } THEN HSet(fh, "Cookie", HGet(h, "cookie")) ELSE fh

WithDefault(fh, name, value) == IF HHas(fh, name) THEN fh ELSE HSet(fh, name, value)

ForwardHeadersPOST(h) ==
    WithDefault(
        WithDefault(WithCookie(CopyHeaders(h), h), "Accept", "application/json, text/event-stream"),
        "Content-Type", "application/json")

ForwardHeadersGET(h) ==
    WithDefault(WithCookie(CopyHeaders(h), h), "Accept", "application/json, text/event-stream")

\* bodyText after the try block: null when request.text() rejected
BodyText(body) == IF body = BodyUnreadable THEN Null ELSE body

IsInitializeRequest(body) ==
    /\ BodyText(body) \notin { Null, "" }
    /\ JSONMethod(BodyText(body)) = "initialize"

\* SessionPolicyPOST without the initialize exemption: an id is synthesized
\* whenever the header is missing
SessionPolicyPOST_SynthOnInit(isInit, fh, newId) ==
    IF ~HHas(fh, "MCP-Session-Id") /\ ~HHas(fh, "mcp-session-id")
    THEN [headers |-> HSet(fh, "MCP-Session-Id", newId), ids |-> <<newId>>]
    ELSE IF isInit
         THEN [headers |-> HDelete(HDelete(fh, "MCP-Session-Id"), "mcp-session-id"),
               ids |-> <<>>]
         ELSE [headers |-> fh, ids |-> <<>>]

\* SessionPolicyPOST without the else-branch that deletes the client's header
SessionPolicyPOST_KeepOnInit(isInit, fh, newId) ==
    IF ~isInit /\ ~HHas(fh, "MCP-Session-Id") /\ ~HHas(fh, "mcp-session-id")
    THEN [headers |-> HSet(fh, "MCP-Session-Id", newId), ids |-> <<newId>>]
    ELSE [headers |-> fh, ids |-> <<>>]

\* [headers, ids]: the forwarded headers and the ids taken from crypto.randomUUID()
SessionPolicyPOST(isInit, fh, newId) ==
    IF ~isInit /\ ~HHas(fh, "MCP-Session-Id") /\ ~HHas(fh, "mcp-session-id")
    THEN [headers |-> HSet(fh, "MCP-Session-Id", newId), ids |-> <<newId>>]
    ELSE IF isInit
         THEN [headers |-> HDelete(HDelete(fh, "MCP-Session-Id"), "mcp-session-id"),
               ids |-> <<>>]
         ELSE [headers |-> fh, ids |-> <<>>]

\* SessionPolicyGET that sets a new id whatever the client sent
SessionPolicyGET_AlwaysNew(fh, newId) ==
    [headers |-> HSet(fh, "MCP-Session-Id", newId), ids |-> <<newId>>]

SessionPolicyGET(fh, newId) ==
    IF ~HHas(fh, "MCP-Session-Id") /\ ~HHas(fh, "mcp-session-id")
    THEN [headers |-> HSet(fh, "MCP-Session-Id", newId), ids |-> <<newId>>]
    ELSE [headers |-> fh, ids |-> <<>>]

Uncaught == [status |-> 500, body |-> "<uncaught exception>", headers |-> EmptyHeaders]
PlainResponse(status, text) == [status |-> status, body |-> text, headers |-> EmptyHeaders]

\* response.headers.get('MCP-Session-Id') || response.headers.get('mcp-session-id') || ''
UpstreamSessionId(uh) ==
    IF HGet(uh, "MCP-Session-Id") \notin { Null, "" } THEN HGet(uh, "MCP-Session-Id")
    ELSE IF HGet(uh, "mcp-session-id") \notin { Null, "" } THEN HGet(uh, "mcp-session-id")
    ELSE ""

\* CorsHeaders with credentials always allowed
CorsHeaders_AlwaysCredentials(validOrigin) ==
    [ n \in { "Access-Control-Allow-Origin", "Access-Control-Allow-Credentials" } |->
        IF n = "Access-Control-Allow-Origin"
        THEN (IF validOrigin \in { Null, "" } THEN "*" ELSE validOrigin)
        ELSE "true" ]

CorsHeaders(validOrigin) ==
    [ n \in { "Access-Control-Allow-Origin", "Access-Control-Allow-Credentials" } |->
        IF n = "Access-Control-Allow-Origin"
        THEN (IF validOrigin \in { Null, "" } THEN "*" ELSE validOrigin)
        ELSE (IF validOrigin \in { Null, "" } THEN "false" ELSE "true") ]

WithOptional(rh, name, value) ==
    IF value \in { Null, "" } THEN rh
    ELSE [n \in DOMAIN rh \cup {name} |-> IF n = name THEN value ELSE rh[n]]

\* the Response built from the upstream's response (the same code in POST and GET)
RelayResponse(env, h, up) ==
    LET validOrigin == getValidOrigin(env, h)
        uh == NewHeaders(up.headers)
        contentType == IF HGet(uh, "Content-Type") \in { Null, "" }
                       THEN "application/json" ELSE HGet(uh, "Content-Type")
        base == WithOptional(CorsHeaders(validOrigin), "Content-Type", contentType)
        withEnc == WithOptional(base, "Content-Encoding", HGet(uh, "Content-Encoding"))
    IN  IF validOrigin = Throw THEN Uncaught
        ELSE [status |-> up.status, body |-> up.body,
              headers |-> WithOptional(withEnc, "MCP-Session-Id", UpstreamSessionId(uh))]


(***************************************************************************)
(* Relay actions: one inbound request at a time (the route keeps no state   *)
(* between requests).                                                       *)
(***************************************************************************)
\* the relay's initial states; the payment flow is at rest
RelayInit ==
    /\ nodeEnv \in { "production", "development" }
    /\ rpc = "idle"
    /\ req = NoReq
    /\ fwd = NoFwd
    /\ synth = <<>>
    /\ upstream = NoUp
    /\ resp = NoResp
    /\ connectedAddress = Null
    /\ chainId = 338
    /\ defaultConfig = [keys |-> {}, recipient |-> "<undefined>", amount |-> "<undefined>",
                        validityWindow |-> -1]
    /\ authorization = [from |-> Null]
    /\ signature = [signer |-> Null]
    /\ hookError = Null
    /\ isLoading = FALSE
    /\ calls = << >>
    /\ clock = 0
    /\ attempt = [kind |-> "none"]
    /\ submissions = << >>
    /\ isWalletConnected = FALSE
    /\ mcpClient = "null"
    /\ init = NoInit
    /\ tool = ToolIdle
    /\ other = NoOther
    /\ link = NoLink
    /\ store = NoStore

ClientRequest ==
    /\ UNCHANGED <<payVars, chatVars, extVars>>
    /\ rpc = "idle"
    /\ \E method \in { "POST", "GET", "OPTIONS" }, query \in RawTargets,
          cookie \in CookieOptions, session \in SessionHeaderOptions,
          extra \in ExtraHeaderOptions, origin \in OriginOptions, body \in BodyTexts :
            /\ method # "POST" => body = ""
            /\ req' = [ method |-> method, query |-> query, body |-> body,
                        headers |-> << <<"Host", "dashboard.test">> >> \o cookie
                                    \o session \o extra \o origin ]
    /\ rpc' = "received"
    /\ UNCHANGED <<nodeEnv, fwd, synth, upstream, resp>>

Respond(r) ==
    /\ resp' = r
    /\ rpc' = "done"
    /\ UNCHANGED <<fwd, synth>>

Forward(method, url, policy, body) ==
    /\ fwd' = [ url |-> url, method |-> method, headers |-> policy.headers, body |-> body ]
    /\ synth' = policy.ids
    /\ rpc' = "forwarded"
    /\ UNCHANGED resp

\* POST, up to the fetch of the upstream
POST ==
    /\ UNCHANGED <<payVars, chatVars, extVars>>
    /\ rpc = "received"
    /\ req.method = "POST"
    /\ LET h == NewHeaders(req.headers)
           targetUrl == TargetParamPOST(req.query)
       IN  IF targetUrl = Throw THEN Respond(Uncaught)
           ELSE IF ~SessionValid(h) THEN Respond(PlainResponse(401, "Unauthorized"))
           ELSE IF targetUrl = Null
                THEN Respond(PlainResponse(400, "target-url parameter is required"))
           ELSE IF ResolveTarget(targetUrl) = Throw
                THEN Respond(PlainResponse(400, "Invalid target-url parameter"))
           ELSE \E newId \in UUIDs :
                  Forward("POST", ResolveTarget(targetUrl),
                          SessionPolicyPOST(IsInitializeRequest(req.body),
                                            ForwardHeadersPOST(h), newId),
                          IF BodyText(req.body) = Null THEN "" ELSE BodyText(req.body))
    /\ UNCHANGED <<nodeEnv, req, upstream>>

\* GET, up to the fetch of the upstream
GET ==
    /\ UNCHANGED <<payVars, chatVars, extVars>>
    /\ rpc = "received"
    /\ req.method = "GET"
    /\ LET h == NewHeaders(req.headers)
           targetUrl == TargetParamGET(req.query)
       IN  IF ~SessionValid(h) THEN Respond(PlainResponse(401, "Unauthorized"))
           ELSE IF targetUrl \in { Null, "" }
                THEN Respond(PlainResponse(400, "target-url parameter is required"))
           ELSE IF ResolveTarget(targetUrl) = Throw
                THEN Respond(PlainResponse(400, "Invalid target-url parameter"))
           ELSE \E newId \in UUIDs :
                  Forward("GET", ResolveTarget(targetUrl),
                          SessionPolicyGET(ForwardHeadersGET(h), newId), Null)
    /\ UNCHANGED <<nodeEnv, req, upstream>>

OPTIONS ==
    /\ UNCHANGED <<payVars, chatVars, extVars>>
    /\ rpc = "received"
    /\ req.method = "OPTIONS"
    /\ LET validOrigin == getValidOrigin(nodeEnv, NewHeaders(req.headers))
       IN  IF validOrigin = Throw THEN Respond(Uncaught)
           ELSE Respond([ status |-> 200, body |-> Null,
                          headers |-> WithOptional(CorsHeaders(validOrigin), "Content-Type",
                                                   "application/json, text/event-stream") ])
    /\ UNCHANGED <<nodeEnv, req, upstream>>

\* the upstream answers the forwarded request
UpstreamResponds ==
    /\ UNCHANGED <<payVars, chatVars, extVars>>
    /\ rpc = "forwarded"
    /\ \E status \in UpstreamStatuses, uh \in UpstreamHeaderOptions :
         upstream' = [ status |-> status, headers |-> uh, body |-> "upstream body" ]
    /\ rpc' = "answered"
    /\ UNCHANGED <<nodeEnv, req, fwd, synth, resp>>

\* fetch rejects (the upstream is unreachable): the handler's await throws
UpstreamUnreachable ==
    /\ UNCHANGED <<payVars, chatVars, extVars>>
    /\ rpc = "forwarded"
    /\ resp' = Uncaught
    /\ rpc' = "done"
    /\ UNCHANGED <<nodeEnv, req, fwd, synth, upstream>>

\* POST and GET, after the fetch: the response to the caller
RelayRespond ==
    /\ UNCHANGED <<payVars, chatVars, extVars>>
    /\ rpc = "answered"
    /\ resp' = RelayResponse(nodeEnv, NewHeaders(req.headers), upstream)
    /\ rpc' = "done"
    /\ UNCHANGED <<nodeEnv, req, fwd, synth, upstream>>

\* the request is over; nothing of it is kept
RelayFinish ==
    /\ UNCHANGED <<payVars, chatVars, extVars>>
    /\ rpc = "done"
    /\ rpc' = "idle"
    /\ req' = NoReq
    /\ fwd' = NoFwd
    /\ synth' = <<>>
    /\ upstream' = NoUp
    /\ resp' = NoResp
    /\ UNCHANGED nodeEnv

\* ---- two relay requests in flight: each invocation of POST or GET has its
\* own locals, and the event loop runs one invocation at a time, passing from
\* one to the other at an await ----
\* the locals of the invocation that is running
Locals ==
    [rpc |-> rpc, req |-> req, fwd |-> fwd, synth |-> synth, upstream |-> upstream,
     resp |-> resp]

\* authenticated and unauthenticated POSTs and GETs for the same upstream
ConcurrentRequests ==
    { [ method |-> m, query |-> "aHR0cDovL3VwLnRlc3QvbWNw", body |-> b,
        headers |-> << <<"Host", "dashboard.test">> >> \o c \o s ] :
        m \in { "POST", "GET" }, b \in { "", InitializeBody, ToolCallBody },
        c \in { <<>>, << <<"Cookie", ValidCookie>> >> }, s \in SessionHeaderOptions }

\* a request arrives while none is being handled
FirstRequest ==
    /\ UNCHANGED <<payVars, chatVars, link, store>>
    /\ rpc = "idle"
    /\ other = NoOther
    /\ \E r \in ConcurrentRequests :
         /\ (r.method = "POST") = (r.body # "")
         /\ req' = r
    /\ rpc' = "received"
    /\ UNCHANGED <<nodeEnv, fwd, synth, upstream, resp, other>>

\* a request arrives while the handler of another is suspended at an await:
\* a new invocation starts with locals of its own
SecondRequest ==
    /\ UNCHANGED <<payVars, chatVars, link, store>>
    /\ rpc \in { "received", "forwarded", "answered" }
    /\ other = NoOther
    /\ other' = Locals
    /\ \E r \in ConcurrentRequests :
         /\ (r.method = "POST") = (r.body # "")
         /\ req' = r
    /\ rpc' = "received"
    /\ fwd' = NoFwd
    /\ synth' = <<>>
    /\ upstream' = NoUp
    /\ resp' = NoResp
    /\ UNCHANGED nodeEnv

\* Switch with forwardHeaders and the fetch arguments kept in one place for
\* both invocations
Switch_SharedForward ==
    /\ UNCHANGED <<payVars, chatVars, link, store>>
    /\ other # NoOther
    /\ other' = IF rpc = "idle" THEN NoOther ELSE Locals
    /\ rpc' = other.rpc
    /\ req' = other.req
    /\ fwd' = fwd
    /\ synth' = other.synth
    /\ upstream' = other.upstream
    /\ resp' = other.resp
    /\ UNCHANGED nodeEnv

\* the running invocation awaits (or has returned) and the other one resumes
Switch ==
    /\ UNCHANGED <<payVars, chatVars, link, store>>
    /\ other # NoOther
    /\ other' = IF rpc = "idle" THEN NoOther ELSE Locals
    /\ rpc' = other.rpc
    /\ req' = other.req
    /\ fwd' = other.fwd
    /\ synth' = other.synth
    /\ upstream' = other.upstream
    /\ resp' = other.resp
    /\ UNCHANGED nodeEnv

\* the upstream answers the forwarded request; its body says which request
\* it answers
UpstreamAnswers ==
    /\ UNCHANGED <<payVars, chatVars, extVars>>
    /\ rpc = "forwarded"
    /\ \E status \in UpstreamStatuses,
          uh \in { <<>>, << <<"MCP-Session-Id", "up-2">>, <<"Content-Encoding", "gzip">> >> } :
         upstream' = [ status |-> status, headers |-> uh, body |-> [answerTo |-> fwd] ]
    /\ rpc' = "answered"
    /\ UNCHANGED <<nodeEnv, req, fwd, synth, resp>>

\* the relay with two requests in flight
ConcurrentNext ==
    \/ FirstRequest
    \/ SecondRequest
    \/ Switch
    \/ POST
    \/ GET
    \/ UpstreamAnswers
    \/ UpstreamUnreachable
    \/ RelayRespond
    \/ RelayFinish

RelayNext ==
    \/ ClientRequest
    \/ POST
    \/ GET
    \/ OPTIONS
    \/ UpstreamResponds
    \/ UpstreamUnreachable
    \/ RelayRespond
    \/ RelayFinish


(***************************************************************************)
(* The signing hook useSignUsdcPermit.                                      *)
(***************************************************************************)
Undefined == "<undefined>"
NoWindow == -1          \* validityWindow: undefined
Payer == "0xPayer"
Payee == "0xPayee"

USDC_ADDRESS ==
    [ c \in { 25, 338 } |->
        IF c = 25 THEN "0xf951eC28187D9E5Ca673Da8FE6757E6f0Be5F77C"
        ELSE "0xc01efAaF7C5C61bEbFAeb358E1161b537b8bC0e0" ]
ChainIds == { 25, 338, 1 }
UsdcDecimals == 6
DefaultValidityWindow == 3600

\* the characters of the sampled amount strings
Chars(amount) ==
    CASE amount = "0.01" -> << "0", ".", "0", "1" >>
      [] amount = "1" -> << "1" >>
      [] amount = "0" -> << "0" >>
      [] amount = "-1" -> << "-", "1" >>
      [] amount = "1.5" -> << "1", ".", "5" >>
      [] amount = ".5" -> << ".", "5" >>
      [] amount = "0.000001" -> << "0", ".", "0", "0", "0", "0", "0", "1" >>
      [] amount = "123.456789" -> << "1", "2", "3", ".", "4", "5", "6", "7", "8", "9" >>
      [] amount = "0.0000004" -> << "0", ".", "0", "0", "0", "0", "0", "0", "4" >>
      [] amount = "abc" -> << "a", "b", "c" >>
      [] OTHER -> << >>

Digits == { "0", "1", "2", "3", "4", "5", "6", "7", "8", "9" }
DigitVal(c) ==
    CASE c = "0" -> 0 [] c = "1" -> 1 [] c = "2" -> 2 [] c = "3" -> 3 [] c = "4" -> 4
      [] c = "5" -> 5 [] c = "6" -> 6 [] c = "7" -> 7 [] c = "8" -> 8 [] OTHER -> 9

RECURSIVE Pow10(_)
Pow10(n) == IF n = 0 THEN 1 ELSE 10 * Pow10(n - 1)

RECURSIVE DigitsValue(_)
DigitsValue(ds) ==
    IF ds = << >> THEN 0
    ELSE 10 * DigitsValue(SubSeq(ds, 1, Len(ds) - 1)) + DigitVal(ds[Len(ds)])

\* index of the first "." of cs, or Len(cs) + 1
RECURSIVE DotIndex(_, _)
DotIndex(cs, i) ==
    IF i > Len(cs) THEN i ELSE IF cs[i] = "." THEN i ELSE DotIndex(cs, i + 1)

\* viem's parseUnits throws unless the value matches /^(-?)([0-9]*)\.?([0-9]*)$/
IsDecimalNumber(cs) ==
    LET negative == Len(cs) > 0 /\ cs[1] = "-"
        body == IF negative THEN SubSeq(cs, 2, Len(cs)) ELSE cs
        dot == DotIndex(body, 1)
    IN  \A i \in 1..Len(body) : i # dot => body[i] \in Digits

\* parseUnits keeping the whole units only
parseUnits_WholeUnits(cs, decimals) ==
    LET negative == Len(cs) > 0 /\ cs[1] = "-"
        body == IF negative THEN SubSeq(cs, 2, Len(cs)) ELSE cs
        integer == SubSeq(body, 1, DotIndex(body, 1) - 1)
        scaled == DigitsValue(integer) * Pow10(decimals)
    IN  IF negative THEN 0 - scaled ELSE scaled

\* viem's parseUnits(value, decimals) of a well-formed value; a fraction longer
\* than decimals is rounded half up
parseUnits(cs, decimals) ==
    LET negative == Len(cs) > 0 /\ cs[1] = "-"
        body == IF negative THEN SubSeq(cs, 2, Len(cs)) ELSE cs
        dot == DotIndex(body, 1)
        integer == SubSeq(body, 1, dot - 1)
        fraction == SubSeq(body, dot + 1, Len(body))
        kept == SubSeq(fraction, 1, IF Len(fraction) < decimals THEN Len(fraction) ELSE decimals)
        scaled == DigitsValue(integer) * Pow10(decimals)
                  + DigitsValue(kept) * Pow10(decimals - Len(kept))
                  + (IF Len(fraction) > decimals /\ DigitVal(fraction[decimals + 1]) >= 5
                     THEN 1 ELSE 0)
    IN  IF negative THEN 0 - scaled ELSE scaled

NoAuth == [from |-> Null]
NoSig == [signer |-> Null]

\* the wallet's typed-data signature over an authorization
Sig(auth) == [signer |-> auth.from, over |-> auth]

\* generateNonce(): the millisecond timestamp, then 24 random bytes
RandomSuffixes == { "r1", "r2" }
\* generateNonce returning one fixed value
generateNonce_Fixed(now, rnd) == << 0, "r1" >>

generateNonce(now, rnd) == << now, rnd >>

\* the nonce as the hex string generateNonce returns: the timestamp in hex,
\* padded to 16 digits, then each of the 24 random bytes in hex, padded to 2
HexDigit(d) ==
    CASE d = 10 -> "a" [] d = 11 -> "b" [] d = 12 -> "c" [] d = 13 -> "d" [] d = 14 -> "e"
      [] d = 15 -> "f" [] OTHER -> << "0", "1", "2", "3", "4", "5", "6", "7", "8", "9" >>[d + 1]

\* n.toString(16)
RECURSIVE ToHex(_)
ToHex(n) == IF n < 16 THEN << HexDigit(n) >> ELSE Append(ToHex(n \div 16), HexDigit(n % 16))

\* s.padStart(width, '0')
RECURSIVE PadStart(_, _)
PadStart(s, width) == IF Len(s) >= width THEN s ELSE PadStart(<< "0" >> \o s, width)

\* crypto.getRandomValues(new Uint8Array(24)): the bytes of the sampled draws
RandomBytes(rnd) == [ i \in 1..24 |-> IF rnd = "r1" THEN 10 * i ELSE 255 - i ]

RECURSIVE RandomHex(_, _)
RandomHex(bytes, i) ==
    IF i > Len(bytes) THEN << >>
    ELSE PadStart(ToHex(bytes[i]), 2) \o RandomHex(bytes, i + 1)

\* the nonce string without its random bytes
NonceHex_TimestampOnly(nonce) == << "0", "x" >> \o PadStart(ToHex(nonce[1]), 16)

NonceHex(nonce) ==
    << "0", "x" >> \o PadStart(ToHex(nonce[1]), 16) \o RandomHex(RandomBytes(nonce[2]), 1)

\* A config object: keys are the properties it has; a property it has may
\* still be undefined.
ConfigKeys == { "recipient", "amount", "validityWindow" }
EmptyConfig ==
    [keys |-> {}, recipient |-> Undefined, amount |-> Undefined, validityWindow |-> NoWindow]
PayConfig(recipient, amount) ==
    [keys |-> { "recipient", "amount" }, recipient |-> recipient, amount |-> amount,
     validityWindow |-> NoWindow]

\* { ...defaultConfig, ...config }
MergeConfig(d, c) ==
    [keys |-> d.keys \cup c.keys,
     recipient |-> IF "recipient" \in c.keys THEN c.recipient ELSE d.recipient,
     amount |-> IF "amount" \in c.keys THEN c.amount ELSE d.amount,
     validityWindow |-> IF "validityWindow" \in c.keys THEN c.validityWindow
                        ELSE d.validityWindow]

ErrNoWallet == "No wallet connected. Please connect your wallet first."
ErrNoRecipient == "Recipient address is required"
ErrNoAmount == "Amount is required"
ErrNoUsdc == "USDC.e not available on this network. Please switch to Cronos Mainnet or Testnet."
ErrUnsupportedChain == "USDC.e not supported on chain"
ErrInvalidDecimal == "Number is not a valid decimal number."
ErrUserRejected == "User rejected the request."

\* the validation block without the check of the connected wallet
ValidationError_NoWalletCheck(address, recipient, amount, chain) ==
    IF recipient \in { Null, Undefined, "" } THEN ErrNoRecipient
    ELSE IF amount \in { Null, Undefined, "" } THEN ErrNoAmount
    ELSE IF chain \notin DOMAIN USDC_ADDRESS THEN ErrNoUsdc
    ELSE Null

\* the validation block of signPermit: the message thrown, or Null
ValidationError(address, recipient, amount, chain) ==
    IF address \in { Null, Undefined, "" } THEN ErrNoWallet
    ELSE IF recipient \in { Null, Undefined, "" } THEN ErrNoRecipient
    ELSE IF amount \in { Null, Undefined, "" } THEN ErrNoAmount
    ELSE IF chain \notin DOMAIN USDC_ADDRESS THEN ErrNoUsdc
    ELSE Null

\* getUsdcDomain(chainId): the message thrown, or Null
UsdcDomainError(chain) == IF chain \notin DOMAIN USDC_ADDRESS THEN ErrUnsupportedChain ELSE Null

\* the authorization signPermit builds
BuildAuthorization(address, recipient, amount, validityWindow, nowMs, rnd) ==
    [ from |-> address,
      to |-> recipient,
      value |-> parseUnits(Chars(amount), UsdcDecimals),
      validAfter |-> 0,
      validBefore |-> (nowMs \div 1000)
                      + (IF validityWindow = NoWindow THEN DefaultValidityWindow
                         ELSE validityWindow),
      nonce |-> generateNonce(nowMs, rnd) ]

\* signPermit, from its first line to the await of signTypedDataAsync:
\* [error, auth, stored]: the message thrown (or Null), the authorization
\* built, and whether setAuthorization ran.
SignPermitBuild(address, chain, dflt, config, nowMs, rnd) ==
    LET final == MergeConfig(dflt, config)
        invalid == ValidationError(address, final.recipient, final.amount, chain)
        auth == BuildAuthorization(address, final.recipient, final.amount,
                                   final.validityWindow, nowMs, rnd)
    IN  IF invalid # Null THEN [error |-> invalid, auth |-> NoAuth, stored |-> FALSE]
        ELSE IF ~IsDecimalNumber(Chars(final.amount))
             THEN [error |-> ErrInvalidDecimal, auth |-> NoAuth, stored |-> FALSE]
        ELSE IF UsdcDomainError(chain) # Null
             THEN [error |-> UsdcDomainError(chain), auth |-> auth, stored |-> TRUE]
        ELSE [error |-> Null, auth |-> auth, stored |-> TRUE]


(***************************************************************************)
(* The payment service: submitUsdcPayment.                                  *)
(***************************************************************************)
SuccessBody == "{\"success\":true,\"txHash\":\"0xabc\"}"
ErrorBody == "{\"error\":\"Invalid signature\",\"reason\":\"bad sig\"}"
HtmlBody == "<html>Bad Gateway</html>"
ResponseBodies == { SuccessBody, ErrorBody, "{}", "null", HtmlBody }
ResponseStatuses == { 200, 400, 502 }
ErrFetchFailed == "fetch failed"
ErrJsonSyntax == "Unexpected token < in JSON"
ErrNullProperty == "Cannot read properties of null"

\* what the fetch of the submit endpoint can do
HttpOutcomes ==
    { [kind |-> "reject", status |-> 0, body |-> ""] }
    \cup { [kind |-> "response", status |-> st, body |-> b] :
             st \in ResponseStatuses, b \in ResponseBodies }

Result(success, error, reason, txHash) ==
    [isNull |-> FALSE, success |-> success, error |-> error, reason |-> reason,
     txHash |-> txHash]
NullResult ==
    [isNull |-> TRUE, success |-> Undefined, error |-> Undefined, reason |-> Undefined,
     txHash |-> Undefined]

\* response.json(): [ok, value]; ok is FALSE when the body is not JSON
ResponseJson(body) ==
    CASE body = SuccessBody -> [ok |-> TRUE, value |-> Result("true", Undefined, Undefined, "0xabc")]
      [] body = ErrorBody ->
            [ok |-> TRUE, value |-> Result(Undefined, "Invalid signature", "bad sig", Undefined)]
      [] body = "{}" -> [ok |-> TRUE, value |-> Result(Undefined, Undefined, Undefined, Undefined)]
      [] body = "null" -> [ok |-> TRUE, value |-> NullResult]
      [] OTHER -> [ok |-> FALSE, value |-> NullResult]

Returned(value) == [thrown |-> FALSE, message |-> Null, value |-> value]
Thrown(message) == [thrown |-> TRUE, message |-> message, value |-> NullResult]

\* the !response.ok branch with .catch(() => ({})) for an unparseable body
ErrorResult_EmptyFallback(status, body) ==
    LET errorData == IF ResponseJson(body).ok THEN ResponseJson(body).value
                     ELSE Result(Undefined, Undefined, Undefined, Undefined)
    IN  IF errorData.isNull THEN Thrown(ErrNullProperty)
        ELSE Returned(Result("false",
                             IF errorData.error \in { Undefined, "" }
                             THEN "HTTP " \o ToString(status) ELSE errorData.error,
                             errorData.reason, Undefined))

\* the !response.ok branch
ErrorResult(status, body) ==
    LET errorData == IF ResponseJson(body).ok THEN ResponseJson(body).value
                     ELSE Result(Undefined, "Unknown error", Undefined, Undefined)
    IN  IF errorData.isNull THEN Thrown(ErrNullProperty)
        ELSE Returned(Result("false",
                             IF errorData.error \in { Undefined, "" }
                             THEN "HTTP " \o ToString(status) ELSE errorData.error,
                             errorData.reason, Undefined))

\* the body of submitUsdcPayment's try block
SubmitTry(outcome) ==
    IF outcome.kind = "reject" THEN Thrown(ErrFetchFailed)
    ELSE IF outcome.status \notin 200..299 THEN ErrorResult(outcome.status, outcome.body)
    ELSE IF ~ResponseJson(outcome.body).ok THEN Thrown(ErrJsonSyntax)
    ELSE Returned(ResponseJson(outcome.body).value)

\* submitUsdcPayment without the catch around its try block
submitUsdcPayment_NoCatch(outcome) == SubmitTry(outcome)

\* submitUsdcPayment: the try block, and the catch around it
submitUsdcPayment(outcome) ==
    IF SubmitTry(outcome).thrown
    THEN Returned(Result("false", "Network error", SubmitTry(outcome).message, Undefined))
    ELSE SubmitTry(outcome)


(***************************************************************************)
(* Payment flow: state and actions.                                         *)
(***************************************************************************)
MaxCalls == 2           \* signPermit invocations that can overlap
MaxSubmissions == 2     \* submissions in one behaviour
StartMs == 1700         \* Date.now() at the start
TickMs == 600
MaxClock == 1800

Slots == 1..MaxCalls
FreeCall ==
    [pc |-> "free", config |-> EmptyConfig, auth |-> NoAuth, sig |-> NoSig, error |-> Null]
NoOutcome == [kind |-> "none", status |-> 0, body |-> ""]
NoAttempt ==
    [kind |-> "none", pc |-> "idle", call |-> 0, network |-> Null, isSubmitting |-> FALSE,
     outcome |-> NoOutcome, submit |-> Returned(NullResult),
     result |-> NullResult, error |-> Undefined, txHash |-> Undefined]

AmountInputs == { Undefined, "", "0.01", "0", "-1", "abc" }
DefaultConfigs ==
    { EmptyConfig,
      [keys |-> { "validityWindow" }, recipient |-> Undefined, amount |-> Undefined,
       validityWindow |-> 120] }
DirectConfigs ==
    { EmptyConfig }
    \cup { PayConfig(Payee, a) : a \in AmountInputs }
    \cup { PayConfig(Undefined, "0.01") }

\* amounts and validity windows for the calls that are checked for the
\* authorization they build
BuildAmounts == { "0.01", "1", "1.5", ".5", "0.000001", "123.456789", "0.0000004" }
WindowConfig(w) ==
    [keys |-> ConfigKeys, recipient |-> Payee, amount |-> "0.01", validityWindow |-> w]
BuildConfigs ==
    { EmptyConfig }
    \cup { PayConfig(Payee, a) : a \in BuildAmounts }
    \cup { WindowConfig(w) : w \in { NoWindow, 0, 60 } }

\* the hook's derived value signedAuthorization
SignedAuthorization(auth, sig) == [authorization |-> auth, signature |-> sig]
NoSigned == SignedAuthorization(NoAuth, NoSig)
signedAuthorization ==
    IF authorization # NoAuth /\ signature # NoSig
    THEN SignedAuthorization(authorization, signature)
    ELSE NoSigned

\* the hook's variables at rest, and the relay's
PayRest ==
    /\ nodeEnv = "production"
    /\ rpc = "idle"
    /\ req = NoReq
    /\ fwd = NoFwd
    /\ synth = <<>>
    /\ upstream = NoUp
    /\ resp = NoResp
    /\ authorization = NoAuth
    /\ signature = NoSig
    /\ hookError = Null
    /\ isLoading = FALSE
    /\ calls = [c \in Slots |-> FreeCall]
    /\ clock = StartMs
    /\ attempt = NoAttempt
    /\ submissions = << >>
    /\ isWalletConnected = FALSE
    /\ mcpClient = "null"
    /\ init = NoInit
    /\ tool = ToolIdle
    /\ other = NoOther
    /\ link = NoLink
    /\ store = NoStore

\* a component that uses the hook directly, with or without a default config
HookInit ==
    /\ connectedAddress \in { Null, Payer }
    /\ chainId \in { 338, 1 }
    /\ defaultConfig \in DefaultConfigs
    /\ PayRest

\* PaymentButton (useSignUsdcPermit() without a default config) and completePayment
PayInit ==
    /\ connectedAddress \in { Null, Payer }
    /\ chainId \in ChainIds
    /\ defaultConfig = EmptyConfig
    /\ PayRest

walletVars == <<connectedAddress, chainId, defaultConfig>>

\* signPermit(config) in slot c, from the call to its first await (or to the
\* end of its catch block when it throws before)
signPermit(c, config, rnd) ==
    LET b == SignPermitBuild(connectedAddress, chainId, defaultConfig, config, clock, rnd)
    IN  /\ calls[c].pc = "free"
        /\ authorization' = IF b.stored THEN b.auth ELSE authorization
        /\ hookError' = b.error
        /\ isLoading' = (b.error = Null)
        /\ calls' = [calls EXCEPT ![c] =
                        IF b.error = Null
                        THEN [pc |-> "awaitSig", config |-> config, auth |-> b.auth,
                              sig |-> NoSig, error |-> Null]
                        ELSE [pc |-> "rejected", config |-> config, auth |-> NoAuth,
                              sig |-> NoSig, error |-> b.error]]
        /\ UNCHANGED signature

\* the random bytes drawn for a direct call (the nonce plays no part in what
\* is checked of direct calls)
DirectSuffixes == { "r1" }

\* a consumer of the hook calls signPermit itself
DirectSignPermit ==
    /\ UNCHANGED <<relayVars, chatVars, extVars>>
    /\ \E c \in Slots, config \in DirectConfigs, rnd \in DirectSuffixes :
         /\ \A d \in Slots : d < c => calls[d].pc # "free"
         /\ signPermit(c, config, rnd)
    /\ UNCHANGED <<walletVars, clock, attempt, submissions>>

\* ... and takes the promise's outcome
DirectReturn ==
    /\ UNCHANGED <<relayVars, chatVars, extVars>>
    /\ \E c \in Slots :
         /\ calls[c].pc \in { "resolved", "rejected" }
         /\ attempt.call # c
         /\ calls' = [calls EXCEPT ![c] = FreeCall]
    /\ UNCHANGED <<walletVars, authorization, signature, hookError, isLoading, clock, attempt, submissions>>

\* the wallet signs: signPermit resumes after the await
WalletSigns ==
    /\ UNCHANGED <<relayVars, chatVars, extVars>>
    /\ \E c \in Slots :
         /\ calls[c].pc = "awaitSig"
         /\ signature' = Sig(calls[c].auth)
         /\ calls' = [calls EXCEPT ![c].pc = "resolved", ![c].sig = Sig(calls[c].auth)]
    /\ isLoading' = FALSE
    /\ UNCHANGED <<walletVars, authorization, hookError, clock, attempt,
                   submissions>>

\* WalletDeclines with a catch block that returns a tagged value: the promise
\* is fulfilled with the error attached
WalletDeclines_ReturnsTagged ==
    /\ UNCHANGED <<relayVars, chatVars, extVars>>
    /\ \E c \in Slots :
         /\ calls[c].pc = "awaitSig"
         /\ calls' = [calls EXCEPT ![c].pc = "resolved", ![c].error = ErrUserRejected]
    /\ hookError' = ErrUserRejected
    /\ isLoading' = FALSE
    /\ UNCHANGED <<walletVars, authorization, signature, clock, attempt,
                   submissions>>

\* the user declines: signTypedDataAsync rejects, signPermit's catch runs
WalletDeclines ==
    /\ UNCHANGED <<relayVars, chatVars, extVars>>
    /\ \E c \in Slots :
         /\ calls[c].pc = "awaitSig"
         /\ calls' = [calls EXCEPT ![c].pc = "rejected", ![c].error = ErrUserRejected]
    /\ hookError' = ErrUserRejected
    /\ isLoading' = FALSE
    /\ UNCHANGED <<walletVars, authorization, signature, clock, attempt,
                   submissions>>

\* a consumer that awaits each call before the next calls signPermit
BuildSignPermit ==
    /\ UNCHANGED <<relayVars, chatVars, extVars>>
    /\ \A d \in Slots : calls[d].pc = "free"
    /\ \E config \in BuildConfigs, rnd \in RandomSuffixes : signPermit(1, config, rnd)
    /\ UNCHANGED <<walletVars, clock, attempt, submissions>>

reset ==
    /\ UNCHANGED <<relayVars, chatVars, extVars>>
    /\ authorization' = NoAuth
    /\ signature' = NoSig
    /\ hookError' = Null
    /\ isLoading' = FALSE
    /\ UNCHANGED <<walletVars, calls, clock, attempt, submissions>>

Tick ==
    /\ UNCHANGED <<relayVars, chatVars, extVars>>
    /\ clock < MaxClock
    /\ clock' = clock + TickMs
    /\ UNCHANGED <<walletVars, authorization, signature, hookError, isLoading, calls,
                   attempt, submissions>>


(***************************************************************************)
(* A payment attempt: PaymentButton.handlePayment or completePayment.       *)
(***************************************************************************)
Networks == { "cronos-mainnet", "cronos-testnet" }
ErrConnectFirst == "Please connect your wallet first"
ErrSwitchChain == "Please switch to Cronos Mainnet or Testnet"

\* the attempt goes on to submit once signPermit has settled either way
SigningSucceeded_OrRejected(call) == call.pc \in { "resolved", "rejected" }

\* the await of signPermit returned a signed authorization (not the catch)
SigningSucceeded(call) == call.pc = "resolved"
SigningFailed(call) == call.pc = "rejected"

\* the value signPermit resolved with: { ...auth, signature: sig }
SignedBy(call) == SignedAuthorization(call.auth, call.sig)

LowestFree(c) == calls[c].pc = "free" /\ \A d \in Slots : d < c => calls[d].pc # "free"

\* PaymentButton: the click handler, to its await of signPermit
handlePayment ==
    /\ UNCHANGED <<relayVars, chatVars, extVars>>
    /\ Len(submissions) < MaxSubmissions
    /\ attempt.kind = "none"
    /\ ~isLoading
    /\ \E amount \in AmountInputs \ { Undefined }, c \in Slots, rnd \in RandomSuffixes :
         IF connectedAddress = Null
         THEN /\ attempt' = [NoAttempt EXCEPT !.kind = "button", !.pc = "done",
                                              !.error = ErrConnectFirst]
              /\ UNCHANGED <<authorization, signature, hookError, isLoading, calls>>
         ELSE IF chainId \notin { 25, 338 }
         THEN /\ attempt' = [NoAttempt EXCEPT !.kind = "button", !.pc = "done",
                                              !.error = ErrSwitchChain]
              /\ UNCHANGED <<authorization, signature, hookError, isLoading, calls>>
         ELSE /\ LowestFree(c)
              /\ signPermit(c, PayConfig(Payee, amount), rnd)
              /\ attempt' = [NoAttempt EXCEPT !.kind = "button", !.pc = "signing",
                               !.call = c,
                               !.network = IF chainId = 25 THEN "cronos-mainnet"
                                           ELSE "cronos-testnet"]
    /\ UNCHANGED <<walletVars, clock, submissions>>

\* completePayment, to its await of config.signPermit
completePayment ==
    /\ UNCHANGED <<relayVars, chatVars, extVars>>
    /\ Len(submissions) < MaxSubmissions
    /\ attempt.kind = "none"
    /\ \E amount \in AmountInputs \ { Undefined }, network \in Networks, c \in Slots,
          rnd \in RandomSuffixes :
         /\ LowestFree(c)
         /\ signPermit(c, PayConfig(Payee, amount), rnd)
         /\ attempt' = [NoAttempt EXCEPT !.kind = "complete", !.pc = "signing", !.call = c,
                                         !.network = network]
    /\ UNCHANGED <<walletVars, clock, submissions>>

\* signPermit resolved: submitUsdcPayment(signed, network) sends its request
SubmitSigned ==
    /\ UNCHANGED <<relayVars, chatVars, extVars>>
    /\ attempt.pc = "signing"
    /\ SigningSucceeded(calls[attempt.call])
    /\ submissions' = Append(submissions, [authorization |-> SignedBy(calls[attempt.call]),
                                           network |-> attempt.network])
    /\ attempt' = [attempt EXCEPT !.pc = "submitting", !.call = 0,
                                  !.isSubmitting = (attempt.kind = "button")]
    /\ calls' = [calls EXCEPT ![attempt.call] = FreeCall]
    /\ UNCHANGED <<walletVars, authorization, signature, hookError, isLoading, clock>>

\* signPermit rejected: the attempt's catch block
SigningRejected ==
    /\ UNCHANGED <<relayVars, chatVars, extVars>>
    /\ attempt.pc = "signing"
    /\ ~SigningSucceeded(calls[attempt.call])
    /\ SigningFailed(calls[attempt.call])
    /\ attempt' =
         IF attempt.kind = "button"
         THEN [attempt EXCEPT !.pc = "done", !.call = 0, !.isSubmitting = FALSE,
                              !.error = calls[attempt.call].error]
         ELSE [attempt EXCEPT !.pc = "done", !.call = 0,
                 !.result = Result("false", "Payment failed", calls[attempt.call].error,
                                   Undefined)]
    /\ calls' = [calls EXCEPT ![attempt.call] = FreeCall]
    /\ UNCHANGED <<walletVars, authorization, signature, hookError, isLoading, clock, submissions>>

\* what handlePayment does with submitUsdcPayment's outcome
ButtonSettled(a, r) ==
    IF r.thrown
    THEN [a EXCEPT !.pc = "done", !.isSubmitting = FALSE, !.error = r.message]
    ELSE IF r.value.isNull
    THEN [a EXCEPT !.pc = "done", !.isSubmitting = FALSE, !.result = r.value,
                   !.error = ErrNullProperty]
    ELSE IF r.value.success # "true"
    THEN [a EXCEPT !.pc = "done", !.isSubmitting = FALSE, !.result = r.value,
                   !.error = IF r.value.error \notin { Undefined, "" } THEN r.value.error
                             ELSE IF r.value.reason \notin { Undefined, "" }
                                  THEN r.value.reason
                             ELSE "Payment failed"]
    ELSE [a EXCEPT !.pc = "done", !.isSubmitting = FALSE, !.result = r.value,
                   !.txHash = r.value.txHash]

\* what completePayment does with it
CompleteSettled(a, r) ==
    IF r.thrown
    THEN [a EXCEPT !.pc = "done",
                   !.result = Result("false", "Payment failed", r.message, Undefined)]
    ELSE [a EXCEPT !.pc = "done", !.result = r.value]

\* the submit endpoint answers (or the fetch fails)
SubmitSettles ==
    /\ UNCHANGED <<relayVars, chatVars, extVars>>
    /\ attempt.pc = "submitting"
    /\ \E outcome \in HttpOutcomes :
         LET r == submitUsdcPayment(outcome)
             a == [attempt EXCEPT !.outcome = outcome, !.submit = r]
         IN  attempt' = IF attempt.kind = "button" THEN ButtonSettled(a, r)
                        ELSE CompleteSettled(a, r)
    /\ UNCHANGED <<walletVars, authorization, signature, hookError, isLoading, calls,
                   clock, submissions>>

\* the attempt is over
AttemptEnds ==
    /\ UNCHANGED <<relayVars, chatVars, extVars>>
    /\ attempt.pc = "done"
    /\ attempt' = NoAttempt
    /\ UNCHANGED <<walletVars, authorization, signature, hookError, isLoading, calls,
                   clock, submissions>>

\* a component that uses the hook directly
HookNext ==
    \/ DirectSignPermit
    \/ DirectReturn
    \/ WalletSigns
    \/ WalletDeclines
    \/ reset

\* PaymentButton and completePayment, on a hook of their own
PayNext ==
    \/ WalletSigns
    \/ WalletDeclines
    \/ Tick
    \/ handlePayment
    \/ completePayment
    \/ SubmitSigned
    \/ SigningRejected
    \/ SubmitSettles
    \/ AttemptEnds

(***************************************************************************)
(* The chat's tool calls (ChatContent).  The MCP client is created by the   *)
(* initMcpClient effect and, when a wallet is connected, decorated by       *)
(* withX402Client of the cronos402 package, whose behaviour is taken from   *)
(* the description of the Payment-Aware Protocol Client Wrapper.            *)
(***************************************************************************)
\* maxPaymentValue: BigInt(0.1 * 10 ** 6), atomic units of USDC
maxPaymentValue_Raised == 10 * 100000
maxPaymentValue == 100000

\* what a paid tool asks for: below, at and above the ceiling
Prices == { 10000, 100000, 200000 }

\* the messages of the errors a tool call ends with
ErrNotReady == "MCP client not ready. Please wait for connection."
ErrPaidTool == "This is a paid tool. Please connect your wallet to continue."
ErrPaymentRequired == "MCP error 402: Payment required"
ErrUpstream == "MCP error -32603: Internal error"
ErrCeiling == "Payment exceeds the maximum payment value"
ErrNotConfirmed == "Payment was not confirmed"
ErrSigning == "User rejected the request"
ErrSettlement == "Payment settlement failed"

\* errorMessage.includes('402')
Includes402(msg) == msg \in { ErrPaymentRequired }

\* the catch of onToolCall: what it throws for the error it caught
onToolCallCatch(msg, wallet) ==
    IF Includes402(msg) /\ ~wallet THEN ErrPaidTool ELSE msg

\* the tool call t ended: with the error onToolCall throws, or with a result
ToolThrows(t, msg) ==
    [t EXCEPT !.pc = "done", !.error = onToolCallCatch(msg, t.wallet)]
ToolReturns(t) == [t EXCEPT !.pc = "done", !.result = "ok"]

\* how mcpClient.callTool can end upstream
ToolOutcomes ==
    { [kind |-> "result", price |-> 0], [kind |-> "error", price |-> 0] }
    \cup { [kind |-> "payment-required", price |-> p] : p \in Prices }

\* the wrapper on a payment-required challenge: the confirmation callback is
\* asked first, then the required amount is held against the spend ceiling
WrapperDecision_IgnoresAnswer(price, confirmed) ==
    IF price > maxPaymentValue THEN "ceiling" ELSE "pay"
WrapperDecision(price, confirmed) ==
    IF ~confirmed THEN "declined"
    ELSE IF price > maxPaymentValue THEN "ceiling"
    ELSE "pay"

\* the component mounts with a server URL: the effect starts initMcpClient
ToolInit ==
    /\ nodeEnv = "production"
    /\ rpc = "idle"
    /\ req = NoReq
    /\ fwd = NoFwd
    /\ synth = <<>>
    /\ upstream = NoUp
    /\ resp = NoResp
    /\ connectedAddress = Null
    /\ chainId = 338
    /\ defaultConfig = EmptyConfig
    /\ authorization = NoAuth
    /\ signature = NoSig
    /\ hookError = Null
    /\ isLoading = FALSE
    /\ calls = [c \in Slots |-> FreeCall]
    /\ clock = StartMs
    /\ attempt = NoAttempt
    /\ submissions = << >>
    /\ isWalletConnected \in BOOLEAN
    /\ mcpClient = "null"
    /\ init = [NoInit EXCEPT !.pc = "connecting", !.wrap = isWalletConnected,
                            !.url = "url-a"]
    /\ tool = ToolIdle
    /\ other = NoOther
    /\ link = NoLink
    /\ store = NoStore

\* an initMcpClient run: the effect's isWalletConnected and serverUrl
Run(i) == [wrap |-> i.wrap, url |-> i.url]

\* the effect re-runs for a wallet state and a server URL: the cleanup of the
\* previous run sets its mounted to false, and a new initMcpClient starts with
\* setMcpError(null); the mcpClient cell keeps the client it holds
EffectReruns(wallet, url) ==
    [init EXCEPT !.pc = "connecting", !.wrap = wallet, !.url = url, !.error = NoRun,
                 !.stale = IF init.pc = "connecting" THEN @ \cup { Run(init) } ELSE @]

\* the wallet connects or disconnects: the effect's dependencies change
WalletChanges ==
    /\ UNCHANGED <<relayVars, payVars, extVars>>
    /\ isWalletConnected' = ~isWalletConnected
    /\ init' = EffectReruns(isWalletConnected', init.url)
    /\ UNCHANGED <<mcpClient, tool>>

\* the serverUrl prop changes
ServerUrlChanges ==
    /\ UNCHANGED <<relayVars, payVars, extVars>>
    /\ \E url \in { "url-a", "url-b" } :
         /\ url # init.url
         /\ init' = EffectReruns(isWalletConnected, url)
    /\ UNCHANGED <<isWalletConnected, mcpClient, tool>>

\* client.connect of the latest run resolved: the client is wrapped when the
\* wallet was connected at the effect's start, and stored with setMcpClient
InitCompletes ==
    /\ UNCHANGED <<relayVars, payVars, extVars>>
    /\ init.pc = "connecting"
    /\ mcpClient' = IF init.wrap THEN "wrapped" ELSE "plain"
    /\ init' = [init EXCEPT !.pc = "idle", !.client = Run(init)]
    /\ UNCHANGED <<isWalletConnected, tool>>

\* client.connect of the latest run rejected: setMcpError, the mcpClient cell
\* is left alone
InitFails ==
    /\ UNCHANGED <<relayVars, payVars, extVars>>
    /\ init.pc = "connecting"
    /\ init' = [init EXCEPT !.pc = "failed", !.error = Run(init)]
    /\ UNCHANGED <<isWalletConnected, mcpClient, tool>>

\* SupersededEnds without the test of mounted: the run stores its client
SupersededEnds_Installs ==
    /\ UNCHANGED <<relayVars, payVars, extVars>>
    /\ \E r \in init.stale :
         /\ init' = [init EXCEPT !.stale = @ \ { r }, !.client = r]
         /\ mcpClient' = IF r.wrap THEN "wrapped" ELSE "plain"
    /\ UNCHANGED <<isWalletConnected, tool>>

\* client.connect of a superseded run resolves or rejects: its mounted is
\* false, so it calls neither setMcpClient nor setMcpError
SupersededEnds ==
    /\ UNCHANGED <<relayVars, payVars, extVars>>
    /\ \E r \in init.stale : init' = [init EXCEPT !.stale = @ \ { r }]
    /\ UNCHANGED <<isWalletConnected, mcpClient, tool>>

\* onToolCall of the current render: its mcpClient and isWalletConnected
onToolCall ==
    /\ UNCHANGED <<relayVars, payVars, extVars>>
    /\ tool.pc = "idle"
    /\ tool' = IF mcpClient = "null"
               THEN [ToolIdle EXCEPT !.pc = "done", !.wallet = isWalletConnected,
                                     !.error = ErrNotReady]
               ELSE [ToolIdle EXCEPT !.pc = "calling", !.client = mcpClient,
                                     !.wallet = isWalletConnected]
    /\ UNCHANGED <<isWalletConnected, mcpClient, init>>

\* the upstream answers the tool call; a payment-required answer reaches
\* onToolCall as an error from a plain client and the wrapper from a wrapped one
ToolAnswers ==
    /\ UNCHANGED <<relayVars, payVars, extVars>>
    /\ tool.pc = "calling"
    /\ \E outcome \in ToolOutcomes :
        tool' = CASE outcome.kind = "result" -> ToolReturns(tool)
                  [] outcome.kind = "error" -> ToolThrows(tool, ErrUpstream)
                  [] outcome.kind = "payment-required" ->
                        IF tool.client = "wrapped"
                        THEN [tool EXCEPT !.pc = "challenged", !.price = outcome.price]
                        ELSE ToolThrows([tool EXCEPT !.price = outcome.price],
                                        ErrPaymentRequired)
    /\ UNCHANGED <<isWalletConnected, mcpClient, init>>

\* the wrapper asks the confirmation callback (ChatContent's own answers
\* TRUE) and decides; only "pay" invokes the Authorization Engine
WrapperConfirms ==
    /\ UNCHANGED <<relayVars, payVars, extVars>>
    /\ tool.pc = "challenged"
    /\ \E answer \in BOOLEAN :
        LET d == WrapperDecision(tool.price, answer)
            t == [tool EXCEPT !.confirmed = IF answer THEN "yes" ELSE "no"]
        IN  tool' = CASE d = "declined" -> ToolThrows(t, ErrNotConfirmed)
                      [] d = "ceiling" -> ToolThrows(t, ErrCeiling)
                      [] d = "pay" -> [t EXCEPT !.pc = "signing", !.prompts = @ + 1]
    /\ UNCHANGED <<isWalletConnected, mcpClient, init>>

\* the signature prompt is answered: an authorization for the whole price
WrapperSigned ==
    /\ UNCHANGED <<relayVars, payVars, extVars>>
    /\ tool.pc = "signing"
    /\ tool' = [tool EXCEPT !.pc = "settling", !.signed = tool.price]
    /\ UNCHANGED <<isWalletConnected, mcpClient, init>>

\* the signature prompt is refused or the signer fails
WrapperSignFails ==
    /\ UNCHANGED <<relayVars, payVars, extVars>>
    /\ tool.pc = "signing"
    /\ tool' = ToolThrows(tool, ErrSigning)
    /\ UNCHANGED <<isWalletConnected, mcpClient, init>>

\* the Settlement Submitter answers for the signed authorization
WrapperSettles ==
    /\ UNCHANGED <<relayVars, payVars, extVars>>
    /\ tool.pc = "settling"
    /\ \E ok \in BOOLEAN :
        tool' = IF ok THEN [tool EXCEPT !.pc = "retrying", !.settled = tool.signed]
                ELSE ToolThrows(tool, ErrSettlement)
    /\ UNCHANGED <<isWalletConnected, mcpClient, init>>

\* the original tool call is retried with the settlement proof attached
WrapperRetries ==
    /\ UNCHANGED <<relayVars, payVars, extVars>>
    /\ tool.pc = "retrying"
    /\ tool' = ToolReturns([tool EXCEPT !.retried = TRUE])
    /\ UNCHANGED <<isWalletConnected, mcpClient, init>>

\* the chat took the tool call's outcome
ToolEnds ==
    /\ UNCHANGED <<relayVars, payVars, extVars>>
    /\ tool.pc = "done"
    /\ tool' = ToolIdle
    /\ UNCHANGED <<isWalletConnected, mcpClient, init>>

\* ChatContent with its MCP client
ToolNext ==
    \/ WalletChanges
    \/ ServerUrlChanges
    \/ InitCompletes
    \/ InitFails
    \/ SupersededEnds
    \/ onToolCall
    \/ ToolAnswers
    \/ WrapperConfirms
    \/ WrapperSigned
    \/ WrapperSignFails
    \/ WrapperSettles
    \/ WrapperRetries
    \/ ToolEnds

\* the signing hook, called one call at a time while the clock advances
BuildNext ==
    \/ BuildSignPermit
    \/ DirectReturn
    \/ WalletSigns
    \/ WalletDeclines
    \/ Tick

(***************************************************************************)
(* The wallet-link connectors: RainbowKitWalletConnector with its           *)
(* userInitiated flag, RainbowKitWalletConnector without it, and            *)
(* WalletConnector.  useAccount() is shared by the whole application, so    *)
(* the wallet connects, disconnects and switches account from outside the   *)
(* component as well.                                                       *)
(***************************************************************************)
Connectors == { "userInitiated", "rainbowkit", "wagmi" }

\* addresses as the wallet reports them, and as the account page stores them
WalletAddresses == { "0xAb", "0xCd" }
StoredAddresses == { "0xab", "0xCd" }

toLowerCase(a) ==
    CASE a = "0xAb" -> "0xab"
      [] a = "0xCd" -> "0xcd"
      [] OTHER -> a

\* only the connector with the flag takes existingWalletAddresses
isAlreadyLinked(l) ==
    /\ l.address # Null
    /\ \E a \in l.existing : toLowerCase(a) = toLowerCase(l.address)

\* handleLinkWallet() up to its first await: the ownership signature is requested
handleLinkWallet(l) ==
    IF l.address = Null \/ ~l.chain
    THEN l
    ELSE [l EXCEPT !.linkStatus = "signing",
                   !.closure = l.address,
                   !.signature = "none",
                   !.prompt = [afterAction |-> l.userActed,
                               afterClick |-> l.clicked,
                               afterLinked |-> isAlreadyLinked(l)]]

\* the auto-link effect, run after every render whose dependencies changed
linkEffect(l) ==
    IF l.connector = "userInitiated" /\ ~l.userInitiated
    THEN l
    ELSE IF l.isConnected /\ l.address # Null /\ l.chain /\ l.linkStatus = "idle"
         THEN IF l.connector = "userInitiated" /\ isAlreadyLinked(l)
              THEN [l EXCEPT !.linkStatus = "already-linked"]
              ELSE handleLinkWallet(l)
         ELSE l

\* useDisconnect().disconnect(), and a disconnect made in the wallet
disconnect(l) ==
    [l EXCEPT !.isConnected = FALSE, !.address = Null, !.chain = FALSE,
              !.clicked = FALSE]

Mounted(connector, existing) ==
    [connector |-> connector, isConnected |-> FALSE, address |-> Null,
     chain |-> FALSE, existing |-> existing, linked |-> existing,
     linkStatus |-> "idle", userInitiated |-> FALSE, timer |-> "none",
     closure |-> Null, signature |-> "none",
     userActed |-> TRUE, clicked |-> FALSE,
     prompt |-> [afterAction |-> TRUE, afterClick |-> TRUE, afterLinked |-> FALSE],
     linkCall |-> [afterLinked |-> FALSE]]

Rest ==
    /\ nodeEnv = "production"
    /\ rpc = "idle"
    /\ req = NoReq
    /\ fwd = NoFwd
    /\ synth = <<>>
    /\ upstream = NoUp
    /\ resp = NoResp
    /\ connectedAddress = Null
    /\ chainId = 338
    /\ defaultConfig = EmptyConfig
    /\ authorization = NoAuth
    /\ signature = NoSig
    /\ hookError = Null
    /\ isLoading = FALSE
    /\ calls = [c \in Slots |-> FreeCall]
    /\ clock = StartMs
    /\ attempt = NoAttempt
    /\ submissions = << >>
    /\ isWalletConnected = FALSE
    /\ mcpClient = "null"
    /\ init = NoInit
    /\ tool = ToolIdle
    /\ other = NoOther

\* a connector mounts on the account page with no wallet connected
LinkInit ==
    /\ Rest
    /\ \E connector \in Connectors :
         \E existing \in SUBSET StoredAddresses :
            /\ connector # "userInitiated" => existing = {}
            /\ link = Mounted(connector, existing)
    /\ store = NoStore

linkRest == <<relayVars, payVars, chatVars, other, store>>

\* "Connect Wallet": the connect modal (or the connector list) opens
ClickConnectWallet ==
    /\ UNCHANGED linkRest
    /\ link # NoLink
    /\ ~link.isConnected
    /\ link' = linkEffect([link EXCEPT
                   !.userInitiated = IF link.connector = "userInitiated"
                                     THEN TRUE ELSE @,
                   !.userActed = TRUE,
                   !.clicked = TRUE])

\* the wallet connects (from the modal, or by wagmi's reconnect); the chain
\* data may arrive later
WalletConnects ==
    /\ UNCHANGED linkRest
    /\ link # NoLink
    /\ ~link.isConnected
    /\ \E a \in WalletAddresses, c \in BOOLEAN :
         link' = linkEffect([link EXCEPT !.isConnected = TRUE, !.address = a,
                                         !.chain = c, !.userActed = TRUE])

ChainArrives ==
    /\ UNCHANGED linkRest
    /\ link # NoLink
    /\ link.isConnected
    /\ ~link.chain
    /\ link' = linkEffect([link EXCEPT !.chain = TRUE])

\* the user switches account inside the wallet
AccountChanges ==
    /\ UNCHANGED linkRest
    /\ link # NoLink
    /\ link.isConnected
    /\ \E a \in WalletAddresses \ { link.address } :
         link' = linkEffect([link EXCEPT !.address = a])

\* the wallet is disconnected from outside the component
WalletDisconnects ==
    /\ UNCHANGED linkRest
    /\ link # NoLink
    /\ link.isConnected
    /\ link' = linkEffect(disconnect(link))

\* "Link This Wallet" (with the flag), "Link Wallet" (WalletConnector)
ClickLinkThisWallet ==
    /\ UNCHANGED linkRest
    /\ link # NoLink
    /\ link.isConnected
    /\ link.linkStatus = "idle"
    /\ \/ /\ link.connector = "userInitiated"
          /\ link.chain
          /\ ~isAlreadyLinked(link)
          /\ link' = handleLinkWallet([link EXCEPT !.userInitiated = TRUE,
                                                   !.userActed = TRUE,
                                                   !.clicked = TRUE])
       \/ /\ link.connector = "wagmi"
          /\ link' = handleLinkWallet([link EXCEPT !.userActed = TRUE,
                                                   !.clicked = TRUE])

\* "Disconnect & Switch Wallet" (with the flag), "Disconnect" (WalletConnector)
ClickDisconnect ==
    /\ UNCHANGED linkRest
    /\ link # NoLink
    /\ link.isConnected
    /\ \/ /\ link.connector = "userInitiated"
          /\ link.chain
          /\ \/ link.linkStatus = "idle" /\ ~isAlreadyLinked(link)
             \/ link.linkStatus = "already-linked"
          /\ link' = linkEffect([disconnect(link) EXCEPT !.linkStatus = "idle",
                                                         !.userInitiated = FALSE])
       \/ /\ link.connector = "wagmi"
          /\ link.linkStatus = "idle"
          /\ link' = linkEffect(disconnect(link))

\* the user signs the ownership message: authApi.linkWallet() is called
SignMessageResolves ==
    /\ UNCHANGED linkRest
    /\ link # NoLink
    /\ link.linkStatus = "signing"
    /\ link' = [link EXCEPT
                   !.linkStatus = "linking",
                   !.signature = "signed",
                   !.linkCall = [afterLinked |->
                       \E a \in link.existing :
                           toLowerCase(a) = toLowerCase(link.closure)]]

\* the catch block: 'error', and 'idle' again three seconds later
LinkCatch(l) ==
    [l EXCEPT !.linkStatus = "error", !.timer = "idle", !.userActed = FALSE]

\* the user declines the ownership signature
SignMessageRejects ==
    /\ UNCHANGED linkRest
    /\ link # NoLink
    /\ link.linkStatus = "signing"
    /\ link' = LinkCatch(link)

\* 'success', the parent is told to reload, 'idle' two seconds later (the
\* connectors without the flag disconnect as well)
LinkWalletResolves ==
    /\ UNCHANGED linkRest
    /\ link # NoLink
    /\ link.linkStatus = "linking"
    /\ link' = [link EXCEPT
                   !.linkStatus = "success",
                   !.linked = @ \cup { link.closure },
                   !.timer = IF link.connector = "userInitiated"
                             THEN "idle" ELSE "idleDisconnect"]

LinkWalletRejects ==
    /\ UNCHANGED linkRest
    /\ link # NoLink
    /\ link.linkStatus = "linking"
    /\ link' = LinkCatch(link)

\* the setTimeout callback of handleLinkWallet
LinkTimerFires ==
    /\ UNCHANGED linkRest
    /\ link # NoLink
    /\ link.timer # "none"
    /\ LET l == [link EXCEPT !.linkStatus = "idle", !.timer = "none"]
       IN  link' = linkEffect(IF link.timer = "idleDisconnect"
                              THEN disconnect(l) ELSE l)

\* the account page reloads the linked wallets and passes them down
ParentReloads ==
    /\ UNCHANGED linkRest
    /\ link # NoLink
    /\ link.connector = "userInitiated"
    /\ link.existing # link.existing \cup link.linked
    /\ link' = linkEffect([link EXCEPT !.existing = @ \cup link.linked])

LinkNext ==
    \/ ClickConnectWallet
    \/ WalletConnects
    \/ ChainArrives
    \/ AccountChanges
    \/ WalletDisconnects
    \/ ClickLinkThisWallet
    \/ ClickDisconnect
    \/ SignMessageResolves
    \/ SignMessageRejects
    \/ LinkWalletResolves
    \/ LinkWalletRejects
    \/ LinkTimerFires
    \/ ParentReloads

(***************************************************************************)
(* The chat routes: POST /api/chat and DELETE /api/chat/list, over the      *)
(* chats and messages tables.  A handler is suspended at each database      *)
(* call, so requests interleave between a read and the write after it.      *)
(***************************************************************************)
Users == { "alice", "bob" }
ChatIds == { "c1", "c2" }
MessageIds == { "m1" }
Requests == { "r1", "r2" }

NoChat == "<none>"
FreeRequest ==
    [pc |-> "free", method |-> Null, user |-> Null, chatId |-> Null,
     msg |-> Null, status |-> 0, wrote |-> FALSE]

\* the handler returns: Response.json(..., { status })
ChatReturn(q, status) == [q EXCEPT !.pc = "done", !.status = status]

ChatStep(r, q) == store' = [store EXCEPT !.reqs[r] = q]

\* a chatId absent from the body or the query string is Null
ChatInit ==
    /\ Rest
    /\ link = NoLink
    /\ \E owners \in [ChatIds -> Users \cup { NoChat }] :
         store = [chats |-> owners,
                  messages |-> [m \in MessageIds |-> NoChat],
                  reqs |-> [r \in Requests |-> FreeRequest],
                  foreignWrite |-> FALSE]

storeRest == <<relayVars, payVars, chatVars, other, link>>

\* POST(req) up to db.query.chats.findFirst: session, then the body's fields
ChatPOST ==
    /\ UNCHANGED storeRest
    /\ store # NoStore
    /\ \E r \in Requests, user \in Users \cup { Null },
          chatId \in ChatIds \cup { Null }, msg \in MessageIds \cup { Null } :
         /\ store.reqs[r].pc = "free"
         /\ LET q == [FreeRequest EXCEPT !.method = "POST", !.user = user,
                                         !.chatId = chatId, !.msg = msg]
            IN  ChatStep(r, IF user = Null THEN ChatReturn(q, 401)
                            ELSE IF chatId = Null THEN ChatReturn(q, 400)
                            ELSE [q EXCEPT !.pc = "find"])

\* findFirst answers: a missing chat is to be inserted, a chat of another
\* user is refused
ChatFind ==
    /\ UNCHANGED storeRest
    /\ store # NoStore
    /\ \E r \in Requests :
         LET q == store.reqs[r]
             owner == store.chats[q.chatId]
         IN  /\ q.pc = "find"
             /\ q.method = "POST"
             /\ ChatStep(r, IF owner = NoChat THEN [q EXCEPT !.pc = "create"]
                             ELSE IF owner # q.user THEN ChatReturn(q, 403)
                             ELSE [q EXCEPT !.pc = "save"])

\* db.insert(chats) for the caller; the id is the table's key, so a chat
\* inserted meanwhile makes the insert throw (500 from the catch block)
ChatCreate ==
    /\ UNCHANGED storeRest
    /\ store # NoStore
    /\ \E r \in Requests :
         LET q == store.reqs[r]
         IN  /\ q.pc = "create"
             /\ IF store.chats[q.chatId] # NoChat
                THEN ChatStep(r, ChatReturn(q, 500))
                ELSE store' = [store EXCEPT
                        !.chats[q.chatId] = q.user,
                        !.reqs[r] = [q EXCEPT !.pc = "save", !.wrote = TRUE]]

\* the user messages of the body are inserted under chatId unless a message
\* of that id exists; the messages reference their chat
ChatSave ==
    /\ UNCHANGED storeRest
    /\ store # NoStore
    /\ \E r \in Requests :
         LET q == store.reqs[r]
             owner == store.chats[q.chatId]
         IN  /\ q.pc = "save"
             /\ IF q.msg = Null \/ store.messages[q.msg] # NoChat
                THEN ChatStep(r, ChatReturn(q, 200))
                ELSE IF owner = NoChat
                THEN ChatStep(r, ChatReturn(q, 500))
                ELSE store' = [store EXCEPT
                        !.messages[q.msg] = q.chatId,
                        !.foreignWrite = @ \/ owner # q.user,
                        !.reqs[r] = [ChatReturn(q, 200) EXCEPT !.wrote = TRUE]]

\* DELETE(req) up to db.query.chats.findFirst: session, then ?chatId=
ChatDELETE ==
    /\ UNCHANGED storeRest
    /\ store # NoStore
    /\ \E r \in Requests, user \in Users \cup { Null },
          chatId \in ChatIds \cup { Null } :
         /\ store.reqs[r].pc = "free"
         /\ LET q == [FreeRequest EXCEPT !.method = "DELETE", !.user = user,
                                         !.chatId = chatId]
            IN  ChatStep(r, IF user = Null THEN ChatReturn(q, 401)
                            ELSE IF chatId = Null THEN ChatReturn(q, 400)
                            ELSE [q EXCEPT !.pc = "find"])

ChatListFind ==
    /\ UNCHANGED storeRest
    /\ store # NoStore
    /\ \E r \in Requests :
         LET q == store.reqs[r]
             owner == store.chats[q.chatId]
         IN  /\ q.pc = "find"
             /\ q.method = "DELETE"
             /\ ChatStep(r, IF owner = NoChat THEN ChatReturn(q, 404)
                             ELSE IF owner # q.user THEN ChatReturn(q, 403)
                             ELSE [q EXCEPT !.pc = "delete"])

\* db.delete(chats).where(eq(chats.id, chatId)); its messages go with it
ChatListDelete ==
    /\ UNCHANGED storeRest
    /\ store # NoStore
    /\ \E r \in Requests :
         LET q == store.reqs[r]
             owner == store.chats[q.chatId]
         IN  /\ q.pc = "delete"
             /\ store' = [store EXCEPT
                   !.chats[q.chatId] = NoChat,
                   !.messages = [m \in MessageIds |->
                                   IF @[m] = q.chatId THEN NoChat ELSE @[m]],
                   !.foreignWrite = @ \/ (owner # NoChat /\ owner # q.user),
                   !.reqs[r] = [ChatReturn(q, 200) EXCEPT
                                   !.wrote = owner # NoChat]]

\* the response has been sent
ChatRequestEnds ==
    /\ UNCHANGED storeRest
    /\ store # NoStore
    /\ \E r \in Requests :
         /\ store.reqs[r].pc = "done"
         /\ ChatStep(r, FreeRequest)

ChatNext ==
    \/ ChatPOST
    \/ ChatFind
    \/ ChatCreate
    \/ ChatSave
    \/ ChatDELETE
    \/ ChatListFind
    \/ ChatListDelete
    \/ ChatRequestEnds

(***************************************************************************)
(* Specifications.                                                          *)
(***************************************************************************)
\* the relay alone, the signing hook alone, the payment attempts alone and
\* the chat's tool calls alone
RelaySpec == RelayInit /\ [][RelayNext]_vars
ConcurrentSpec == RelayInit /\ [][ConcurrentNext]_vars
HookSpec == HookInit /\ [][HookNext]_vars
PaySpec == PayInit /\ [][PayNext]_vars
ToolSpec == ToolInit /\ [][ToolNext]_vars
BuildSpec == HookInit /\ [][BuildNext]_vars
LinkSpec == LinkInit /\ [][LinkNext]_vars
ChatSpec == ChatInit /\ [][ChatNext]_vars


(***************************************************************************)
(* Claims about the relay (checked under RelaySpec).                        *)
(***************************************************************************)
\* the client's header list names a session-id header, in either spelling
ClientSentSessionId ==
    \E i \in 1..Len(req.headers) :
        req.headers[i][1] \in { "MCP-Session-Id", "mcp-session-id", "Mcp-Session-Id" }

ClientSentValidCookie ==
    \E i \in 1..Len(req.headers) : req.headers[i] = <<"Cookie", ValidCookie>>

Forwarded == fwd # NoFwd

\* C1: a forwarded POST whose body's method is "initialize" got no id from
\* crypto.randomUUID(); a forwarded POST with any other body (empty, not JSON,
\* unreadable, another method) and no client session-id header carries
\* exactly one synthesized id, as its MCP-Session-Id.
C1_SynthesizedSessionId ==
    (Forwarded /\ req.method = "POST") =>
        /\ req.body = InitializeBody => synth = << >>
        /\ (req.body # InitializeBody /\ ~ClientSentSessionId) =>
              /\ Len(synth) = 1
              /\ HGet(fwd.headers, "MCP-Session-Id") = synth[1]

C1_Witness ==
    /\ Forwarded
    /\ req.method = "POST"
    /\ req.body = "not json"
    /\ ~ClientSentSessionId
    /\ synth = << "uuid-2" >>
    /\ HGet(fwd.headers, "mcp-session-id") = "uuid-2"

\* C2: a forwarded initialize POST carries no session-id header at all,
\* whatever the client sent.
C2_InitializeStripsSessionId ==
    (Forwarded /\ req.method = "POST" /\ req.body = InitializeBody) =>
        "mcp-session-id" \notin DOMAIN fwd.headers

C2_Witness ==
    /\ Forwarded
    /\ req.method = "POST"
    /\ req.body = InitializeBody
    /\ ClientSentSessionId
    /\ "mcp-session-id" \notin DOMAIN fwd.headers
    /\ "cookie" \in DOMAIN fwd.headers

\* C3 (as claimed): a POST or GET without a valid session is answered 401 and
\* nothing is forwarded, whatever the target-url parameter is.
C3_UnauthenticatedIs401 ==
    (rpc = "done" /\ req.method \in { "POST", "GET" } /\ ~ClientSentValidCookie) =>
        /\ resp.status = 401
        /\ ~Forwarded

\* where C3 fails: a POST without a session whose target-url has a malformed
\* percent escape ends in the uncaught URIError of decodeURIComponent
C3_MalformedEscapeUncaught ==
    /\ rpc = "done"
    /\ req.method = "POST"
    /\ ~ClientSentValidCookie
    /\ req.query = "%E0%A4%A"
    /\ ~Forwarded
    /\ resp = Uncaught

\* the target-url parameter is base64 of a parseable URL, or a parseable URL
TargetUsable ==
    req.query \in { "aHR0cDovL3VwLnRlc3QvbWNw", "http%3A%2F%2Fup.test%2Fmcp",
                    "http://up.test/mcp" }

\* C4 (as claimed): an authenticated POST or GET with a missing or unusable
\* target-url is answered 400 and nothing is forwarded; otherwise it is
\* forwarded to the URL the parameter names.
C4_TargetResolution ==
    (rpc \in { "forwarded", "answered", "done" } /\ req.method \in { "POST", "GET" }
       /\ ClientSentValidCookie) =>
        IF TargetUsable
        THEN Forwarded /\ fwd.url = UpstreamUrl
        ELSE ~Forwarded /\ resp.status = 400

\* where C4 fails: the same malformed escape from a caller with a session
C4_MalformedEscapeUncaught ==
    /\ rpc = "done"
    /\ req.method = "POST"
    /\ ClientSentValidCookie
    /\ req.query = "%E0%A4%A"
    /\ ~Forwarded
    /\ resp.status = 500


(***************************************************************************)
(* Claims about the payment attempts (checked under PaySpec).               *)
(***************************************************************************)
\* C5: a submission is made only from an attempt whose signPermit call has
\* resolved, and what is submitted is the authorization and signature that
\* call returned, the signature being the wallet's over that authorization;
\* an attempt whose signing failed or was declined submits nothing.
C5_SignThenSubmit ==
    [][ submissions' # submissions =>
          /\ attempt.pc = "signing"
          /\ calls[attempt.call].pc = "resolved"
          /\ calls[attempt.call].sig = Sig(calls[attempt.call].auth)
          /\ submissions' =
               Append(submissions,
                      [ authorization |-> [ authorization |-> calls[attempt.call].auth,
                                            signature |-> calls[attempt.call].sig ],
                        network |-> attempt.network ]) ]_vars

C5_Witness ==
    /\ attempt.kind = "button"
    /\ attempt.pc = "submitting"
    /\ Len(submissions) = 1
    /\ submissions[1].authorization.authorization.value = 10000
    /\ submissions[1].authorization.signature = Sig(submissions[1].authorization.authorization)

\* C6: whatever the HTTP call did, submitUsdcPayment returned a value and
\* threw nothing; when the fetch itself failed, the value is
\* {success: false, error: "Network error", reason: <the failure's message>}.
C6_SubmitNeverThrows ==
    (attempt.pc = "done" /\ attempt.outcome # NoOutcome) =>
        /\ ~attempt.submit.thrown
        /\ attempt.outcome.kind = "reject" =>
              attempt.submit.value = [ isNull |-> FALSE, success |-> "false",
                                       error |-> "Network error", reason |-> ErrFetchFailed,
                                       txHash |-> Undefined ]

C6_Witness ==
    /\ attempt.pc = "done"
    /\ attempt.kind = "complete"
    /\ attempt.outcome.kind = "reject"
    /\ attempt.result.error = "Network error"

\* a non-success status with a body that is not JSON
NonSuccessUnparseable ==
    /\ attempt.pc = "done"
    /\ attempt.outcome.kind = "response"
    /\ attempt.outcome.status \in { 400, 502 }
    /\ attempt.outcome.body = HtmlBody

\* C7 (as claimed): on a non-success status with an unparseable body the
\* result is success:false with error "HTTP <status>".
C7_HttpStatusFallback ==
    NonSuccessUnparseable =>
        /\ attempt.submit.value.success = "false"
        /\ attempt.submit.value.error = "HTTP " \o ToString(attempt.outcome.status)

\* C7 (amended): on a non-success status with an unparseable body the result
\* is success:false with error "Unknown error"; the error is "HTTP <status>"
\* when the body is JSON that carries no error.
C7_UnknownErrorFallback ==
    /\ NonSuccessUnparseable =>
          /\ ~attempt.submit.thrown
          /\ attempt.submit.value.success = "false"
          /\ attempt.submit.value.error = "Unknown error"
    /\ (attempt.pc = "done" /\ attempt.outcome.kind = "response"
          /\ attempt.outcome.status \in { 400, 502 } /\ attempt.outcome.body = "{}") =>
          /\ attempt.submit.value.success = "false"
          /\ attempt.submit.value.error = "HTTP " \o ToString(attempt.outcome.status)

C7_Witness ==
    /\ NonSuccessUnparseable
    /\ attempt.outcome.status = 502
    /\ attempt.submit.value.error = "Unknown error"

(***************************************************************************)
(* Claims about the signing hook (checked under HookSpec).                  *)
(***************************************************************************)
\* C8 (as claimed): no authorization with value <= 0 is built and handed to
\* the wallet for signing.
C8_NoNonPositiveValueSigned ==
    [][ \A c \in Slots :
          (calls[c].pc = "free" /\ calls'[c].pc = "awaitSig") => calls'[c].auth.value > 0 ]_vars

\* where C8 fails: amount "0" was built into an authorization and signed
C8_ZeroValueSigned ==
    /\ calls[1].pc = "resolved"
    /\ calls[1].config = PayConfig(Payee, "0")
    /\ calls[1].auth.value = 0
    /\ calls[1].sig = Sig(calls[1].auth)
    /\ signedAuthorization = SignedAuthorization(calls[1].auth, calls[1].sig)

\* C9: a signPermit call made with no wallet connected, or whose config
\* (merged with the hook's default) has no recipient or no amount, or on a
\* chain without USDC.e, ends rejected with an error in that same step, and no
\* signature request is issued.
C9_NoPromptOnInvalidInput ==
    [][ \A c \in Slots :
          ( /\ calls[c].pc = "free"
            /\ calls'[c].pc # "free"
            /\ \/ connectedAddress = Null
               \/ chainId \notin { 25, 338 }
               \/ MergeConfig(defaultConfig, calls'[c].config).recipient \in { Undefined, "" }
               \/ MergeConfig(defaultConfig, calls'[c].config).amount \in { Undefined, "" } )
          => /\ calls'[c].pc = "rejected"
             /\ hookError' = calls'[c].error
             /\ hookError' # Null ]_vars

C9_Witness ==
    /\ connectedAddress = Null
    /\ chainId = 338
    /\ calls[1].pc = "rejected"
    /\ calls[1].error = ErrNoWallet
    /\ hookError = ErrNoWallet
    /\ ~isLoading

\* C10 (as claimed): when the user declines, the hook no longer exposes the
\* authorization built for that attempt, and isLoading is false.
C10_DeclineDiscardsAuthorization ==
    [][ \A c \in Slots :
          (calls[c].pc = "awaitSig" /\ calls'[c].pc = "rejected")
          => /\ authorization' # calls[c].auth
             /\ ~isLoading' ]_vars

\* where C10 fails: after a declined prompt for 0.01 USDC.e the hook still
\* holds the unsigned authorization
C10_DeclinedAuthorizationKept ==
    /\ calls[1].pc = "rejected"
    /\ calls[1].error = ErrUserRejected
    /\ calls[2].pc = "free"
    /\ authorization = calls[1].auth
    /\ authorization.value = 10000
    /\ signature = NoSig
    /\ hookError = ErrUserRejected
    /\ ~isLoading

\* how a signPermit invocation ended for its caller: pc "resolved" is the
\* promise fulfilled (a returned value), pc "rejected" is the promise
\* rejected (the error thrown at line 235)
SignPermitFailures ==
    { ErrNoWallet, ErrNoRecipient, ErrNoAmount, ErrNoUsdc, ErrInvalidDecimal, ErrUserRejected }

\* C11 (as claimed): a signPermit invocation that failed (no wallet,
\* unsupported network, invalid amount, declined) ended by returning a value
\* that carries the failure, not by throwing.
C11_FailuresAreReturned ==
    \A c \in Slots : calls[c].error # Null => calls[c].pc = "resolved"

\* C11 (amended): a signPermit invocation that failed ended with its promise
\* rejected by an Error carrying the failure's message, and returned no
\* signature; a fulfilled invocation carries no error.
C11_FailuresAreThrown ==
    \A c \in Slots :
        /\ calls[c].error # Null =>
              /\ calls[c].pc = "rejected"
              /\ calls[c].sig = NoSig
              /\ calls[c].error \in SignPermitFailures
        /\ calls[c].pc = "rejected" => calls[c].error # Null
        /\ calls[c].pc = "resolved" => calls[c].error = Null /\ calls[c].sig # NoSig

C11_Witness ==
    /\ calls[1].pc = "rejected"
    /\ calls[1].error = ErrUserRejected
    /\ calls[2].pc = "rejected"
    /\ calls[2].error = ErrInvalidDecimal
    /\ hookError = ErrInvalidDecimal

(***************************************************************************)
(* Claims about the relay's CORS headers and pass-through (RelaySpec).      *)
(***************************************************************************)
\* the response carries the CORS headers (those built from getValidOrigin)
HasCors == rpc = "done" /\ "Access-Control-Allow-Credentials" \in DOMAIN resp.headers

\* the Origin header of the request, or the origin of its Referer
RequestOrigin == ExtractedOrigin(NewHeaders(req.headers))

\* the request's origin is on the allow-list of the environment
OriginMatched ==
    /\ RequestOrigin \notin { Null, Throw }
    /\ RequestOrigin \in (IF nodeEnv = "production" THEN AllowedOrigins ELSE LocalhostOrigins)

\* C12 (as claimed): a response says credentials 'true' and echoes the
\* origin only for an origin on the allow-list of the environment; any other
\* origin, or none, gets credentials 'false'.
C12_CredentialsOnlyForMatchedOrigin ==
    HasCors =>
        IF OriginMatched
        THEN /\ resp.headers["Access-Control-Allow-Credentials"] = "true"
             /\ resp.headers["Access-Control-Allow-Origin"] = RequestOrigin
        ELSE resp.headers["Access-Control-Allow-Credentials"] = "false"

\* where C12 fails: in development an origin that is not localhost is echoed
\* with credentials 'true'
C12_UnmatchedOriginTrusted ==
    /\ HasCors
    /\ nodeEnv = "development"
    /\ req.method = "OPTIONS"
    /\ RequestOrigin = "https://evil.test"
    /\ resp.headers["Access-Control-Allow-Origin"] = "https://evil.test"
    /\ resp.headers["Access-Control-Allow-Credentials"] = "true"

C14_UpstreamPassThrough ==
    (rpc = "done" /\ Forwarded /\ upstream # NoUp) =>
        /\ resp.status = upstream.status
        /\ resp.body = upstream.body

\* where C14 fails: the upstream answered 200, the request's Referer is not a
\* URL, and the caller gets the uncaught TypeError of new URL(referer)
C14_RefererBreaksPassThrough ==
    /\ rpc = "done"
    /\ Forwarded
    /\ ClientSentValidCookie
    /\ upstream # NoUp
    /\ upstream.status = 200
    /\ HGet(NewHeaders(req.headers), "referer") = "not a url"
    /\ resp = Uncaught

NothingPaid ==
    /\ tool.prompts = 0
    /\ tool.signed = 0
    /\ tool.settled = 0
    /\ ~tool.retried

C17_NoSigningWithoutConfirmation ==
    tool.confirmed = "no" =>
        /\ NothingPaid
        /\ tool.pc = "done"
        /\ tool.error # Null
        /\ tool.result = Null

\* a payment within the ceiling was not confirmed, and the call ended unpaid
C17_Witness ==
    /\ tool.pc = "done"
    /\ tool.price = 10000
    /\ tool.confirmed = "no"
    /\ tool.error = ErrNotConfirmed
    /\ NothingPaid

\* C18: the MCP client is payment-wrapped only while a wallet is connected,
\* and a tool call made with no wallet connected that is rejected as
\* payment-required attempts no signing or payment and fails with the
\* 'paid tool, connect your wallet' error.
C18_PaidToolNeedsWallet ==
    /\ mcpClient = "wrapped" => isWalletConnected
    /\ (tool.price > 0 /\ ~tool.wallet) =>
        /\ NothingPaid
        /\ tool.pc = "done" => tool.error = ErrPaidTool

\* with no wallet connected, a tool call made through the wrapped client that
\* is still in the mcpClient cell was prompted for a signature
C18_StaleWrappedClientSigns ==
    /\ ~isWalletConnected
    /\ ~tool.wallet
    /\ tool.client = "wrapped"
    /\ tool.price > 0
    /\ tool.prompts > 0

(***************************************************************************)
(* Claims about the authorization signPermit builds (BuildSpec).            *)
(***************************************************************************)
\* amount * 10^6 of the sampled decimal strings with at most 6 fractional
\* digits, worked out by hand
AtomicUnits ==
    [ a \in { "0.01", "1", "1.5", ".5", "0.000001", "123.456789" } |->
        CASE a = "0.01" -> 10000
          [] a = "1" -> 1000000
          [] a = "1.5" -> 1500000
          [] a = ".5" -> 500000
          [] a = "0.000001" -> 1
          [] OTHER -> 123456789 ]

\* the amount a call's config and the hook's default config merge to
FinalAmount(c) == MergeConfig(defaultConfig, calls[c].config).amount

\* C19: for an amount written as a decimal string with at most 6 fractional
\* digits, the authorization signPermit built has value = amount * 10^6
\* exactly ("0.01" gives 10000), and that is the authorization the hook stores
\* and the wallet signs.
C19_ValueIsExactAtomicUnits ==
    \A c \in Slots :
        (calls[c].auth # NoAuth /\ FinalAmount(c) \in DOMAIN AtomicUnits) =>
            /\ calls[c].auth.value = AtomicUnits[FinalAmount(c)]
            /\ calls[c].pc = "resolved" => calls[c].sig.over.value = AtomicUnits[FinalAmount(c)]

\* "123.456789" was signed as 123456789 atomic units
C19_Witness ==
    /\ calls[1].pc = "resolved"
    /\ FinalAmount(1) = "123.456789"
    /\ calls[1].sig.over.value = 123456789

\* the validity window the claim expects for a call: the per-call value if
\* given, else the hook's default config value, else 3600
ClaimedWindow(config, dflt) ==
    IF "validityWindow" \in config.keys /\ config.validityWindow # NoWindow
    THEN config.validityWindow
    ELSE IF "validityWindow" \in dflt.keys /\ dflt.validityWindow # NoWindow
         THEN dflt.validityWindow
         ELSE 3600

\* C20: every authorization signPermit builds has validAfter = 0 and
\* validBefore = now + validityWindow, now being the build time in whole UNIX
\* seconds and validityWindow the per-call value if given, else the hook's
\* default config value, else 3600.
C20_ValidityWindowFallback ==
    [][\A c \in Slots :
          (calls[c].pc = "free" /\ calls'[c].auth # NoAuth) =>
              /\ calls'[c].auth.validAfter = 0
              /\ calls'[c].auth.validBefore =
                    (clock \div 1000) + ClaimedWindow(calls'[c].config, defaultConfig)]_vars

\* a call whose config carries validityWindow: undefined, on a hook whose
\* default config says 120, built an authorization valid for 3600 seconds
C20_UndefinedHidesDefault ==
    /\ calls[1].pc = "awaitSig"
    /\ calls[1].config = WindowConfig(NoWindow)
    /\ defaultConfig.validityWindow = 120
    /\ calls[1].auth.validBefore = 2 + 3600

\* a signPermit call builds an authorization while the hook still holds the
\* authorization of an earlier call
BuildsAfterEarlier ==
    /\ calls[1].pc = "free"
    /\ calls'[1].auth # NoAuth
    /\ authorization # NoAuth

ForwardOf(r, newId) ==
    LET h == NewHeaders(r.headers)
    IN  IF r.method = "POST"
        THEN [ url |-> ResolveTarget(TargetParamPOST(r.query)), method |-> "POST",
               headers |-> SessionPolicyPOST(IsInitializeRequest(r.body),
                                             ForwardHeadersPOST(h), newId).headers,
               body |-> r.body ]
        ELSE [ url |-> ResolveTarget(TargetParamGET(r.query)), method |-> "GET",
               headers |-> SessionPolicyGET(ForwardHeadersGET(h), newId).headers,
               body |-> Null ]

\* the invocation x forwarded and answered from its own request and its own
\* upstream response only
OwnRequestOnly(x) ==
    /\ x.fwd # NoFwd =>
          /\ SessionValid(NewHeaders(x.req.headers))
          /\ \E newId \in UUIDs : x.fwd = ForwardOf(x.req, newId)
    /\ x.upstream # NoUp => x.upstream.body.answerTo = x.fwd
    /\ (x.rpc = "done" /\ x.upstream # NoUp) =>
          /\ x.resp = RelayResponse(nodeEnv, NewHeaders(x.req.headers), x.upstream)
          /\ x.resp.body.answerTo.body = (IF x.req.method = "POST" THEN x.req.body ELSE Null)
    /\ (x.rpc = "done" /\ x.fwd = NoFwd) => x.resp = PlainResponse(401, "Unauthorized")

\* C22: for every interleaving of two relay requests, what is forwarded for a
\* request (target, headers, session id, body) is determined by that request
\* and its own randomUUID draw, the upstream response it is given answers its
\* own forwarded request, and its response is built from its own request and
\* that upstream response.
C22_RequestsAreIndependent ==
    /\ rpc # "idle" => OwnRequestOnly(Locals)
    /\ (other # NoOther /\ other.rpc # "idle") => OwnRequestOnly(other)

\* two different requests were in flight together and each got the answer to
\* its own forwarded request
C22_Witness ==
    /\ other # NoOther
    /\ rpc = "done"
    /\ other.rpc = "done"
    /\ req.method = "POST"
    /\ other.req.method = "GET"
    /\ upstream # NoUp
    /\ other.upstream # NoUp
    /\ resp.body.answerTo = fwd
    /\ other.resp.body.answerTo = other.fwd
    /\ fwd # other.fwd

(***************************************************************************)
(* Further claims about the relay (RelaySpec).                              *)
(***************************************************************************)
\* the value of the upstream response's header, or Null
UpstreamHeader(name) == HGet(NewHeaders(upstream.headers), name)

\* the value of the relay response's header, or Null
ResponseHeader(name) == IF name \in DOMAIN resp.headers THEN resp.headers[name] ELSE Null

\* C23: once the upstream has answered, the relay's response carries
\* MCP-Session-Id equal to the upstream's session id when the upstream sent
\* one and no MCP-Session-Id otherwise (an id the relay synthesized for the
\* request is not echoed), and carries Content-Encoding exactly when the
\* upstream's response had one, with the same value.
C23_UpstreamHeadersSurfaced ==
    (rpc = "done" /\ upstream # NoUp) =>
        /\ ResponseHeader("MCP-Session-Id")
             = (IF UpstreamHeader("mcp-session-id") = Null THEN Null
                ELSE UpstreamHeader("mcp-session-id"))
        /\ ResponseHeader("Content-Encoding") = UpstreamHeader("Content-Encoding")
        /\ synth # << >> => ResponseHeader("MCP-Session-Id") # synth[1]

\* where C23 fails: the upstream sent a session id and a Content-Encoding, the
\* request's Referer is not a URL, and the response carries neither
C23_RefererDropsUpstreamHeaders ==
    /\ rpc = "done"
    /\ upstream # NoUp
    /\ UpstreamHeader("mcp-session-id") = "up-2"
    /\ UpstreamHeader("Content-Encoding") = "gzip"
    /\ resp = Uncaught

(***************************************************************************)
(* Claims about the hook's exposed state (BuildSpec, HookSpec).             *)
(***************************************************************************)
\* C24: whenever the hook exposes a signedAuthorization, its signature is the
\* one the wallet produced over exactly the authorization it is paired with.
C24_SignatureMatchesAuthorization ==
    signedAuthorization # NoSigned =>
        signedAuthorization.signature = Sig(signedAuthorization.authorization)

\* where C24 fails: 1 USDC.e was signed, then a call for 0.01 USDC.e was
\* declined; the hook exposes the 0.01 authorization with the signature made
\* over the authorization for 1
C24_StaleSignaturePaired ==
    /\ calls[1].pc = "rejected"
    /\ calls[1].error = ErrUserRejected
    /\ signedAuthorization # NoSigned
    /\ signedAuthorization.authorization.value = 10000
    /\ signedAuthorization.signature.over.value = 1000000
    /\ ~isLoading

\* some signPermit call is awaiting the wallet
SignPermitInFlight == \E c \in Slots : calls[c].pc = "awaitSig"

\* C28: isLoading is true whenever at least one signPermit call is in flight
\* and false when none is.
C28_LoadingTracksCalls == isLoading = SignPermitInFlight

\* where C28 fails: of two overlapping calls the first was signed, the second
\* still awaits the wallet, and isLoading is false
C28_LoadingClearedByOtherCall ==
    /\ calls[1].pc = "resolved"
    /\ calls[2].pc = "awaitSig"
    /\ hookError = Null
    /\ ~isLoading

\* the session id the client sent with the request, or Null
ClientSessionId == HGet(NewHeaders(req.headers), "mcp-session-id")

\* C26: a forwarded non-initialize POST, and any forwarded GET, that carries a
\* client-supplied session id is forwarded with that same id and none is
\* synthesized; a forwarded GET without one carries exactly one synthesized
\* id, whatever else the request holds.
C26_ClientSessionIdForwarded ==
    Forwarded =>
        /\ (ClientSentSessionId
              /\ (req.method = "GET" \/ req.body # InitializeBody)) =>
              /\ synth = << >>
              /\ HGet(fwd.headers, "mcp-session-id") = ClientSessionId
        /\ (req.method = "GET" /\ ~ClientSentSessionId) =>
              /\ Len(synth) = 1
              /\ HGet(fwd.headers, "mcp-session-id") = synth[1]

\* a GET with the client's id "client-2" was forwarded with it
C26_Witness ==
    /\ Forwarded
    /\ req.method = "GET"
    /\ ClientSessionId = "client-2"
    /\ synth = << >>
    /\ HGet(fwd.headers, "MCP-Session-Id") = "client-2"

(***************************************************************************)
(* Claims about ChatContent's MCP client initialization (ToolSpec).         *)
(***************************************************************************)
\* C27: an initMcpClient run that was superseded installs neither its client
\* nor its error: the error shown is that of the latest run, and once the
\* latest run has completed, mcpClient is the client that run built,
\* payment-wrapped if and only if the wallet was connected for that run.
C27_LatestInitializationWins ==
    /\ init.pc = "idle" =>
          /\ init.client = Run(init)
          /\ mcpClient = (IF init.wrap THEN "wrapped" ELSE "plain")
    /\ init.error # NoRun => (init.pc = "failed" /\ init.error = Run(init))
    /\ init.client # NoRun => mcpClient = (IF init.client.wrap THEN "wrapped" ELSE "plain")
    /\ init.client = NoRun => mcpClient = "null"

\* the latest run (no wallet, url-b) completed and installed its plain client
\* while a superseded run for a connected wallet is still in flight
C27_Witness ==
    /\ init.pc = "idle"
    /\ Run(init) = [wrap |-> FALSE, url |-> "url-b"]
    /\ \E r \in init.stale : r.wrap
    /\ mcpClient = "plain"
    /\ init.client = Run(init)

\* C25: in the wallet-link connectors, once a link attempt has failed no
\* ownership signature is requested again until the user clicks or
\* reconnects: every signature request follows a user action.
C25_NoRepromptAfterFailure ==
    (link # NoLink /\ link.linkStatus = "signing") => link.prompt.afterAction

\* the attempt failed, the timer put the connector back to 'idle', and the
\* auto-link effect asked for a signature again with no user action between
C25_RepromptsOnItsOwn ==
    /\ link # NoLink
    /\ link.linkStatus = "signing"
    /\ ~link.prompt.afterAction
    /\ link.timer = "none"

\* C29: in the connector with the userInitiated flag, a signature is
\* requested and linkWallet is called only after a click on Connect Wallet
\* or Link This Wallet since the last disconnect, linkWallet is called only
\* with a signature, and never for an address already in
\* existingWalletAddresses.
C29_LinkOnlyOnUserRequest ==
    (link # NoLink /\ link.connector = "userInitiated") =>
        /\ link.linkStatus \in { "signing", "linking" } =>
              link.prompt.afterClick /\ ~link.prompt.afterLinked
        /\ link.linkStatus = "linking" =>
              link.signature = "signed" /\ ~link.linkCall.afterLinked

\* the wallet was disconnected outside the component, which leaves
\* userInitiated set, and on reconnecting the effect asked for a signature
C29_SignsWithoutClick ==
    /\ link # NoLink
    /\ link.connector = "userInitiated"
    /\ link.linkStatus = "signing"
    /\ ~link.prompt.afterClick

\* C30: a chat is appended to or deleted only by its owner: no request
\* writes to a chat that belongs to another user, and a request answered
\* 401 or 403 has created, changed and deleted nothing.
C30_OnlyOwnerWrites ==
    store # NoStore =>
        /\ ~store.foreignWrite
        /\ \A r \in Requests :
              store.reqs[r].status \in { 401, 403 } => ~store.reqs[r].wrote

\* a request passed the ownership test, the chat was deleted and created
\* again under the same id by another user, and the request then wrote
C30_StaleOwnershipCheck ==
    /\ store # NoStore
    /\ store.foreignWrite
    /\ \E r \in Requests : store.reqs[r].status = 200 /\ store.reqs[r].wrote

====
